---------------------------- MODULE Spec2Model ----------------------------
(***************************************************************************)
(* contextional: the fixture lifecycle of a tree of Groups.                *)
(*                                                                         *)
(* A Group is a number 1..n; parent[g] is its parent (0 for a root), and   *)
(* the children of a Group are listed in increasing number, which is their *)
(* declaration order.  Case i of Group g is the pair <<g, i>>.  Every      *)
(* fixture list (one-time setups, one-time teardowns, per-test setups,     *)
(* per-test teardowns) holds NFix callables; which of them raises is an    *)
(* input of the handler that calls the list: 0 for none, k for the k-th.   *)
(*                                                                         *)
(* The host that drives the hooks is unittest (setUpClass, setUp, runTest, *)
(* tearDown, tearDownClass of the generated class of each Case) or pytest, *)
(* which calls the same hooks and the hooks of pytest_contextional around  *)
(* them (pytest_runtest_protocol before, pytest_runtest_teardown after).   *)
(***************************************************************************)
EXTENDS Integers, Sequences, FiniteSets, TLC

VARIABLES
    parent,                         \* Group._parent, 0 for a root Group
    ncases,                         \* number of Cases in Group._cases
    cascading_failure,              \* Group._cascading_failure
    args,                           \* Group._args
    description,                    \* Group._description
    decl,                           \* what the declaration passed to add_group
    heap,                           \* the Group objects the declarations have made
    contexts,                       \* GroupContextManager._group of every context
    last,                           \* the last call of a method of a context
    found,                          \* the last call of _find_common_ancestor
    runner,                         \* the host: "unittest" or "pytest"
    showlongtestinfo,               \* TerminalReporter.showlongtestinfo (pytest -v)
    cases,                          \* Helper._cases, the queue of Cases
    teardown_level,                 \* Case._teardown_level
    created,                        \* number of roots create_tests was called for
    level_stack,                    \* Helper._level_stack
    cascading_failure_in_progress,  \* Group._cascading_failure_in_progress
    cascading_failure_root,         \* Group._cascading_failure_root
    pc,                             \* the hook the host calls next
    case,                           \* cls._case, the Case of the running class
    auto_fail,                      \* cls._auto_fail
    err,                            \* cls._err: the Group named by the stored error, 0 if none
    log                             \* every fixture call and every report, in order

vars == <<parent, ncases, cascading_failure, args, description, decl, heap,
          contexts, last, found, runner, showlongtestinfo, cases,
          teardown_level, created, level_stack, cascading_failure_in_progress,
          cascading_failure_root, pc, case, auto_fail, err, log>>

shape == <<parent, ncases, cascading_failure, args, description, decl, heap,
           contexts, last, found, runner, showlongtestinfo>>

----------------------------------------------------------------------------
\* Bounds of the model.

\* Cases declared directly in one Group.
MaxCases == 2

\* Cases in the queue of one run.
MaxQueue == 2

\* Callables in each fixture list of a Group.
NFix == 2

\* Fixtures and bodies that raise in one run.
MaxFaults == 2

\* Parameter sets in the collection one add_group is given.
MaxParams == 2

\* Group objects the declarations of one program make.
MaxObjects == 9

\* Calls of the methods of the contexts after their with blocks.
MaxCalls == 3

\* Contexts one call of includes or combine is given.
MaxArgs == 2

\* Entries of a list that add_setup and add_test append to.
MaxList == 2

\* Groups that the sequences given to _find_common_ancestor are made of.
MaxGroups == 3

\* Length of a sequence given to _find_common_ancestor.
MaxDepth == 3

\* The marker of the Case that ends a tree: class NullGroup.
NullGroup == 0

\* Case._teardown_level of a Case that owns no teardown: None.
NoLevel == -1

\* The parent links of the declared forests.
Trees ==
    { <<0>>,                \* a single root
      <<0, 1>>,             \* G with a child
      <<0, 0>>,             \* two trees
      <<0, 1, 1>>,          \* P with the siblings B and C
      <<0, 1, 2>>,          \* a chain of three
      <<0, 1, 0>>,          \* a tree with a child, then a second tree
      <<0, 0, 2>> }         \* a tree, then a second tree with a child

Groups == 1..Len(parent)

NoCase == <<0, 0>>

AllCases == {c \in Groups \X (1..MaxCases) : c[2] <= ncases[c[1]]}

----------------------------------------------------------------------------
\* Sequences.

Range(s) == {s[i] : i \in 1..Len(s)}

Reverse(s) == [i \in 1..Len(s) |-> s[Len(s) + 1 - i]]

\* list.index: the first position of x in s (x is in s).
IndexOf(s, x) == CHOOSE i \in 1..Len(s) : s[i] = x /\ \A j \in 1..(i - 1) : s[j] # x

\* list.remove: s without the first occurrence of x.
Remove(s, x) ==
    IF x \notin Range(s) THEN s
    ELSE LET k == IndexOf(s, x)
         IN  [i \in 1..(Len(s) - 1) |-> IF i < k THEN s[i] ELSE s[i + 1]]

\* The elements of a set of numbers in increasing order.
RECURSIVE Sorted(_)
Sorted(S) ==
    IF S = {} THEN <<>>
    ELSE LET m == CHOOSE x \in S : \A y \in S : x <= y
         IN  <<m>> \o Sorted(S \ {m})

----------------------------------------------------------------------------
\* The Group tree.

\* Group._children, in declaration order.
Children(g) == Sorted({h \in Groups : parent[h] = g})

Roots == Sorted({g \in Groups : parent[g] = 0})

\* Group._ancestry: from the Group up to its root.
RECURSIVE Ancestry(_)
Ancestry(g) == IF parent[g] = 0 THEN <<g>> ELSE <<g>> \o Ancestry(parent[g])

\* A setup ancestry that also holds the child Groups of the Group.
setup_ancestry_with_children(g) == Reverse(Ancestry(g)) \o Children(g)

\* setup_ancestry = list(reversed(group._ancestry)): root first.
SetupAncestry(g) == Reverse(Ancestry(g))

\* The Groups of the subtree of g, g included.
Subtree(g) == {h \in Groups : g \in Range(Ancestry(h))}

----------------------------------------------------------------------------
\* The log.

\* args=(): the arguments of a Group that was declared without parameters.
EmptyArgs == [mapping |-> FALSE, vals |-> <<>>]

\* A call that passes nothing.
NoArguments == [positional |-> <<>>, keyword |-> <<>>]

\* setup(**group._args) for a Mapping, setup(*group._args) otherwise.
setup_call(a) ==
    IF a.mapping THEN [positional |-> <<>>, keyword |-> a.vals]
    ELSE [positional |-> a.vals, keyword |-> <<>>]

\* teardown()
teardown_call(a) == NoArguments

\* What the callable of an event is called with, the instance of the test
\* case left aside.
received(ev, g) ==
    IF ev = "setup" THEN setup_call(args[g])
    ELSE IF ev = "teardown" THEN teardown_call(args[g])
    ELSE NoArguments

Event(ev, g, i, res, c, at) ==
    [ev |-> ev, g |-> g, i |-> i, res |-> res, c |-> c, at |-> at,
     args |-> received(ev, g)]

\* The calls of one fixture list of Group g, of which the k-th raises (0: none).
\* The fixtures of a list run last-declared first.
RunListReversed(ev, g, k, c, at) ==
    [i \in 1..(IF k = 0 THEN NFix ELSE k) |->
        Event(ev, g, (IF k = 0 THEN NFix ELSE k) + 1 - i,
              IF i = k THEN "raise" ELSE "ok", c, at)]

\* A variant in which the fixtures declared after the raising one are called
\* all the same.
RunListThrough(ev, g, k, c, at) ==
    [i \in 1..NFix |-> Event(ev, g, i, IF i = k THEN "raise" ELSE "ok", c, at)]

RunList(ev, g, k, c, at) ==
    [i \in 1..(IF k = 0 THEN NFix ELSE k) |->
        Event(ev, g, i, IF i = k THEN "raise" ELSE "ok", c, at)]

IsFault(e) ==
    \/ e.ev \in {"setup", "teardown", "test_setup", "test_teardown"} /\ e.res = "raise"
    \/ e.ev = "body" /\ e.res # "ok"

Faults(l) == Cardinality({i \in 1..Len(l) : IsFault(l[i])})

----------------------------------------------------------------------------
\* The Tree Builder: Group._build_test_cases and create_tests.
\* A build state is [cases |-> the queue, tl |-> the markers of the Cases].

\* A variant that marks the first Case of the queue: self._cases[0].
set_teardown_level_for_first_case(st, level) ==
    [st EXCEPT !.tl[st.cases[1]] = level]

\* Helper._set_teardown_level_for_last_case: self._cases[-1]._teardown_level = level
set_teardown_level_for_last_case(st, level) ==
    [st EXCEPT !.tl[st.cases[Len(st.cases)]] = level]

\* Helper._add_case for every Case of the Group, in declaration order.
\* The Cases of the Group appended last-declared first.
add_cases_reversed(st, g) ==
    [st EXCEPT !.cases = st.cases \o [i \in 1..ncases[g] |-> <<g, ncases[g] + 1 - i>>]]

add_cases(st, g) ==
    [st EXCEPT !.cases = st.cases \o [i \in 1..ncases[g] |-> <<g, i>>]]

RECURSIVE build_test_cases(_, _)
RECURSIVE build_children(_, _, _, _)
RECURSIVE build_children_marking_always(_, _, _, _)

\* A variant of the loop below that marks the last Case of the queue after
\* every child, whether the child added a Case or not.
build_children_marking_always(g, kids, st, start_test_count) ==
    IF kids = <<>> THEN st
    ELSE LET built == build_test_cases(Head(kids), st)
         IN  build_children_marking_always(
                g, Tail(kids),
                IF built.cases = <<>> THEN built
                ELSE set_teardown_level_for_last_case(built, g),
                Len(built.cases))

\* The loop over self._children: after each child that added a Case, the last
\* Case of the queue is marked with this Group.
build_children(g, kids, st, start_test_count) ==
    IF kids = <<>> THEN st
    ELSE LET built == build_test_cases(Head(kids), st)
             end_test_count == Len(built.cases)
         IN  IF end_test_count > start_test_count
             THEN build_children(g, Tail(kids),
                                 set_teardown_level_for_last_case(built, g),
                                 end_test_count)
             ELSE build_children(g, Tail(kids), built, start_test_count)

build_test_cases(g, st) ==
    LET own == add_cases(st, g)
    IN  build_children(g, Children(g), own, Len(own.cases))

\* GroupContextManager.create_tests for the tree of root r.
create_tests(r, st) ==
    LET start_test_count == Len(st.cases)
        built == build_test_cases(r, st)
    IN  IF Len(built.cases) > start_test_count
        THEN set_teardown_level_for_last_case(built, NullGroup)
        ELSE built

----------------------------------------------------------------------------
\* The Lifecycle Engine.  A machine state m is
\*   [stack, in_progress, root, log, raised, value_error]:
\* the Fixture Stack, the two cascading flags of every Group, the log, the Group
\* whose fixture raised out of the running loop (0: none), and whether
\* list.index raised ValueError.

Machine ==
    [stack |-> level_stack, in_progress |-> cascading_failure_in_progress,
     root |-> cascading_failure_root, log |-> log, raised |-> 0,
     value_error |-> FALSE]

\* for group in setup_ancestry: if group not in stack: stack.append(group)
RECURSIVE push_missing(_, _)
push_missing(stack, ancestry) ==
    IF ancestry = <<>> THEN stack
    ELSE push_missing(IF Head(ancestry) \in Range(stack) THEN stack
                      ELSE Append(stack, Head(ancestry)),
                      Tail(ancestry))

\* A variant of the branching point that takes the length of the zip whether
\* a pair differs or not.
zip_length(ancestry_a, ancestry_b) ==
    IF Len(ancestry_a) < Len(ancestry_b) THEN Len(ancestry_a) ELSE Len(ancestry_b)

\* The index of the first pair of zip(ancestry_a, ancestry_b) that differs,
\* counted from 0; the length of the zip when none differs.
branching_point(ancestry_a, ancestry_b) ==
    LET n == IF Len(ancestry_a) < Len(ancestry_b) THEN Len(ancestry_a)
             ELSE Len(ancestry_b)
        differ == {i \in 1..n : ancestry_a[i] # ancestry_b[i]}
    IN  IF differ = {} THEN n
        ELSE (CHOOSE i \in differ : \A j \in differ : i <= j) - 1

\* A variant of _find_common_ancestor that never finds a common Group.
no_common_ancestor(ancestry_a, ancestry_b) == NullGroup

\* GroupTestCase._find_common_ancestor
find_common_ancestor(ancestry_a, ancestry_b) ==
    LET bp == branching_point(ancestry_a, ancestry_b)
    IN  IF bp > 0 THEN ancestry_a[bp] ELSE NullGroup

\* A variant that lists the Groups above the marker bottom-up: stack[stop:].
teardown_groups_bottom_up(stack, level) ==
    LET stop_index == IF level = NullGroup THEN 0 ELSE IndexOf(stack, level)
    IN  SubSeq(stack, stop_index + 1, Len(stack))

\* A variant that lists the marker itself with the Groups above it.
teardown_groups_and_marker(stack, level) ==
    LET stop_index == IF level = NullGroup THEN 1 ELSE IndexOf(stack, level)
    IN  Reverse(SubSeq(stack, stop_index, Len(stack)))

\* teardown_groups = stack[:stop_index:-1], for the marker level (not None).
teardown_groups(stack, level) ==
    LET stop_index == IF level = NullGroup THEN 0 ELSE IndexOf(stack, level)
    IN  Reverse(SubSeq(stack, stop_index + 1, Len(stack)))

\* stack.index(level) raises ValueError
index_fails(stack, level) == level # NullGroup /\ level \notin Range(stack)

\* The loop of _teardown_to_level: the teardowns of each Group in turn, then
\* stack.remove(group); a raising teardown leaves the loop and the Group stays.
RECURSIVE teardown_loop(_, _, _, _, _)
teardown_loop(m, groups, td, c, at) ==
    IF groups = <<>> THEN m
    ELSE LET g == Head(groups)
             ran == [m EXCEPT !.log = @ \o RunList("teardown", g, td[g], c, at)]
         IN  IF td[g] # 0 THEN [ran EXCEPT !.raised = g]
             ELSE teardown_loop([ran EXCEPT !.stack = Remove(@, g)],
                                Tail(groups), td, c, at)

\* GroupTestCase._teardown_to_level
teardown_to_level(m, level, td, c, at) ==
    IF level = NoLevel THEN m
    ELSE IF index_fails(m.stack, level) THEN [m EXCEPT !.value_error = TRUE]
    ELSE teardown_loop(m, teardown_groups(m.stack, level), td, c, at)

\* A variant of the setup loop that pushes no Group.
RECURSIVE setup_loop_without_push(_, _, _, _)
setup_loop_without_push(m, ancestry, su, c) ==
    IF ancestry = <<>> THEN m
    ELSE LET g == Head(ancestry)
             ran == [m EXCEPT !.log =
                        @ \o RunList("setup", g, su[g], c, "setUpClass")]
         IN  IF su[g] # 0 THEN [ran EXCEPT !.raised = g]
             ELSE setup_loop_without_push(ran, Tail(ancestry), su, c)

\* The setup loop of setUpClass: the setups of every Group of the ancestry that
\* is not on the stack, then stack.append(group); a raising setup leaves it.
RECURSIVE setup_loop(_, _, _, _)
setup_loop(m, ancestry, su, c) ==
    IF ancestry = <<>> THEN m
    ELSE LET g == Head(ancestry)
         IN  IF g \in Range(m.stack) THEN setup_loop(m, Tail(ancestry), su, c)
             ELSE LET ran == [m EXCEPT !.log =
                                  @ \o RunList("setup", g, su[g], c, "setUpClass")]
                  IN  IF su[g] # 0 THEN [ran EXCEPT !.raised = g]
                      ELSE setup_loop([ran EXCEPT !.stack = Append(@, g)],
                                      Tail(ancestry), su, c)

\* Group._setup_group, called for a Group that is not on the stack.
setup_group(m, g, k, c) ==
    LET pushed == [m EXCEPT !.stack = Append(@, g),
                            !.in_progress[g] =
                                \E a \in Range(Ancestry(g)) : m.in_progress[a]]
    IN  IF pushed.in_progress[g] THEN pushed
        ELSE LET ran == [pushed EXCEPT !.log =
                             @ \o RunList("setup", g, k, c, "setup_group")]
             IN  IF k = 0 THEN ran
                 ELSE IF cascading_failure[g]
                 THEN [ran EXCEPT !.in_progress[g] = TRUE, !.root[g] = TRUE,
                                  !.raised = g]
                 ELSE [ran EXCEPT !.raised = g]

\* ContextionalTerminalReporter.setup_contextional_groups: a raising
\* _setup_group is reported against its Group and the loop goes on.
RECURSIVE setup_contextional_groups(_, _, _, _)
setup_contextional_groups(m, ancestry, su, c) ==
    IF ancestry = <<>> THEN m
    ELSE LET g == Head(ancestry)
         IN  IF g \in Range(m.stack)
             THEN setup_contextional_groups(m, Tail(ancestry), su, c)
             ELSE LET done == setup_group(m, g, su[g], c)
                      reported ==
                          IF done.raised = 0 THEN done
                          ELSE [done EXCEPT
                                   !.log = Append(@, Event("report", g, 0, "setup",
                                                           c, "setup_group")),
                                   !.raised = 0]
                  IN  setup_contextional_groups(reported, Tail(ancestry), su, c)

\* Group._teardown_group, called for a Group that is on the stack: the Group
\* is removed whether its teardowns raise or not.
teardown_group(m, g, k, c, at) ==
    [m EXCEPT !.log = @ \o RunList("teardown", g, k, c, at),
              !.stack = Remove(@, g),
              !.raised = IF k = 0 THEN 0 ELSE g]

\* handle_teardowns, lines 73-86: during a cascading failure the Groups above
\* the marker are dropped from the top, without teardown, down to the first
\* cascading root.
RECURSIVE ignore_teardown_groups(_, _)
ignore_teardown_groups(m, groups) ==
    IF groups = <<>> THEN [m |-> m, groups |-> groups]
    ELSE IF m.root[Head(groups)] THEN [m |-> m, groups |-> groups]
    ELSE ignore_teardown_groups([m EXCEPT !.stack = Remove(@, Head(groups))],
                                Tail(groups))

\* handle_teardowns, lines 98-149: _teardown_group of every remaining Group; a
\* raising one is reported against its Group and the loop goes on.
RECURSIVE teardown_reported(_, _, _, _)
teardown_reported(m, groups, td, c) ==
    IF groups = <<>> THEN m
    ELSE LET g == Head(groups)
         IN  IF g \notin Range(m.stack)
             THEN teardown_reported(m, Tail(groups), td, c)
             ELSE LET done == teardown_group(m, g, td[g], c, "handle_teardowns")
                      reported ==
                          IF done.raised = 0 THEN done
                          ELSE [done EXCEPT
                                   !.log = Append(@, Event("report", g, 0, "teardown",
                                                           c, "handle_teardowns")),
                                   !.raised = 0]
                  IN  teardown_reported(reported, Tail(groups), td, c)

\* pytest_contextional.handle_teardowns
handle_teardowns_of(m, c, td) ==
    LET td_lvl == teardown_level[c]
    IN  IF td_lvl = NoLevel THEN m
        ELSE IF index_fails(m.stack, td_lvl) THEN [m EXCEPT !.value_error = TRUE]
        ELSE LET all == teardown_groups(m.stack, td_lvl)
                 kept == IF m.in_progress[c[1]]
                         THEN ignore_teardown_groups(m, all)
                         ELSE [m |-> m, groups |-> all]
             IN  teardown_reported(kept.m, kept.groups, td, c)

\* GroupTestCase.tearDownClass, lines 1299-1315: the Groups above the marker
\* are removed from the stack and none of their teardowns is run.
RECURSIVE remove_groups(_, _)
remove_groups(stack, groups) ==
    IF groups = <<>> THEN stack
    ELSE remove_groups(Remove(stack, Head(groups)), Tail(groups))

\* GroupTestCase.tearDownClass
tearDownClass_of(m, c, af, td) ==
    LET td_lvl == teardown_level[c]
    IN  IF td_lvl = NoLevel THEN m
        ELSE IF af /\ ~cascading_failure[c[1]]
        THEN IF index_fails(m.stack, td_lvl) THEN [m EXCEPT !.value_error = TRUE]
             ELSE [m EXCEPT !.stack =
                       remove_groups(@, teardown_groups(m.stack, td_lvl))]
        ELSE teardown_to_level(m, td_lvl, td, c, "tearDownClass")

\* Helper._clear_stack: the teardowns of the Groups still on the stack.
clear_stack_of(m, td) ==
    teardown_loop(m, Reverse(m.stack), td, NoCase, "clear_stack")

----------------------------------------------------------------------------
\* The host.

NoErr == <<0, "">>

\* _find_common_ancestor has not been called on its own.
NotCalled == [a |-> <<>>, b |-> <<>>, called |-> FALSE, result |-> NoLevel]

\* No method of a context has been called yet.
NoCall == [op |-> "", target |-> 0, args |-> <<>>, raised |-> "", n |-> 0]

\* The parameter sets a declaration passes: a plain sequence of values, which
\* is passed positionally, or a Mapping, which is passed by keyword.
ParamSets == {[mapping |-> FALSE, vals |-> <<1>>], [mapping |-> TRUE, vals |-> <<2>>]}

\* params=(), the default of add_group.
NoParams == [kind |-> "none", sets |-> <<>>]

\* The collections of parameter sets: a sequence of them, or a Mapping of
\* them of which the key of sets[k] is k.
Collections ==
    {NoParams} \cup
    {[kind |-> k, sets |-> s] :
        k \in {"sequence", "mapping"},
        s \in UNION {[1..n -> ParamSets] : n \in 0..MaxParams}}

\* The orders in which the keys 1..n of a Mapping can be iterated.
KeyOrders(n) ==
    {o \in [1..n -> 1..n] : \A i \in 1..n : \A j \in 1..n : o[i] = o[j] => i = j}

\* " {}".format(x) appended to a description: x is a key or a parameter set.
NoSuffix == [kind |-> "none", key |-> 0, set |-> EmptyArgs]
KeySuffix(k) == [kind |-> "key", key |-> k, set |-> EmptyArgs]
SetSuffix(a) == [kind |-> "set", key |-> 0, set |-> a]

Described(text, suffix) == [text |-> text, suffix |-> suffix]

\* Group.__init__ as Group._add_child calls it for the child of add_group;
\* nested tells whether the with block declares a Group with a Case in it.
NewChild(text, casc, n, nested) ==
    [description |-> Described(text, NoSuffix), cascading_failure |-> casc,
     args |-> EmptyArgs, ncases |-> n, nested |-> nested]

\* The loop of add_group takes the keys of a Mapping, 0 without parameters,
\* the indexes of a sequence otherwise.
group_identifiers(params, keys) ==
    IF params.kind = "mapping" THEN keys
    ELSE IF params.kind = "none" THEN <<0>>
    ELSE [k \in 1..Len(params.sets) |-> k - 1]

\* params[gid]: the keys of the Mapping are 1..n, the indexes count from 0.
param_set(params, gid) ==
    IF params.kind = "mapping" THEN params.sets[gid] ELSE params.sets[gid + 1]

\* The body of the loop: the deep copy of the declared child with its args
\* and its description.
new_group(child, params, gid) ==
    [child EXCEPT
        !.args = IF params.kind = "none" THEN EmptyArgs ELSE param_set(params, gid),
        !.description =
            IF params.kind = "mapping"
            THEN Described(child.description.text, KeySuffix(gid))
            ELSE IF params.kind = "none" THEN child.description
            ELSE Described(child.description.text, SetSuffix(param_set(params, gid)))]

\* An add_group that leaves the declared child among the children.
add_group_keeping_child(children, child, params, keys) ==
    LET ids == group_identifiers(params, keys)
    IN  Append(children, child)
        \o [n \in 1..Len(ids) |-> new_group(child, params, ids[n])]

\* GroupContextManager.add_group after the with block: children is
\* last_group._children before the call, and the result is that list after
\* it: the declared child was appended, every copy is appended behind it,
\* and the declared child is removed.
add_group(children, child, params, keys) ==
    LET ids == group_identifiers(params, keys)
        with_child == Append(children, child)
        copies == [n \in 1..Len(ids) |-> new_group(child, params, ids[n])]
        all == with_child \o copies
    IN  SubSeq(all, 1, Len(children)) \o SubSeq(all, Len(children) + 2, Len(all))

\* The declaration of Scenario D: a root Group with root_cases Cases and one
\* add_group("Child", casc, params) in it, whose with block declares
\* child_cases Cases, or a nested Group with one Case.
Declarations ==
    {d \in [params : Collections, keys : UNION {KeyOrders(n) : n \in 0..MaxParams},
            casc : BOOLEAN, root_cases : 0..1, child_cases : 0..1, nested : BOOLEAN] :
        /\ Len(d.keys) = IF d.params.kind = "mapping" THEN Len(d.params.sets) ELSE 0
        /\ d.nested = (d.child_cases = 0)}

\* A forest that no add_group with parameters has declared.
NoDecl ==
    [params |-> NoParams, keys |-> <<>>, casc |-> FALSE, root_cases |-> 0,
     child_cases |-> 0, nested |-> FALSE]

\* The children of the root of a declaration.
Declared(d) ==
    add_group(<<>>, NewChild("Child", d.casc, d.child_cases, d.nested),
              d.params, d.keys)

\* The Groups of the tree of root and kids, numbered in pre-order: a child
\* with a nested Group takes two numbers.
Width(d) == IF d.nested THEN 2 ELSE 1
ChildOf(d, g) == (g - 2) \div Width(d) + 1
IsNested(d, g) == d.nested /\ (g - 2) % 2 = 1

RECURSIVE TotalCases(_, _)
TotalCases(nc, n) == IF n = 0 THEN 0 ELSE nc[n] + TotalCases(nc, n - 1)

\* The raising fixture of the one-time list of every Group of D: an input.
Plans(D) ==
    {[g \in Groups |-> IF g \in D THEN f[g] ELSE 0] : f \in [D -> 0..NFix]}

\* The first hook the host calls for a Case, and the first after its tearDown.
FirstHook == IF runner = "pytest" THEN "protocol" ELSE "setUpClass"
EndHook == IF runner = "pytest" THEN "handle_teardowns" ELSE "tearDownClass"

Group(c) == c[1]

Outcome(res, c, at) == Event("outcome", Group(c), 0, res, c, at)

HasOutcome(l, c) == \E i \in 1..Len(l) : l[i].ev = "outcome" /\ l[i].c = c

Init ==
    /\ parent \in Trees
    /\ ncases \in [1..Len(parent) -> 0..MaxCases]
    /\ TotalCases(ncases, Len(parent)) <= MaxQueue
    /\ cascading_failure \in [1..Len(parent) -> BOOLEAN]
    /\ args = [g \in 1..Len(parent) |-> EmptyArgs]
    /\ description = [g \in 1..Len(parent) |-> Described("Group", NoSuffix)]
    /\ decl = NoDecl
    /\ heap = <<>>
    /\ contexts = <<>>
    /\ last = NoCall
    /\ found = NotCalled
    /\ runner \in {"unittest", "pytest"}
    /\ showlongtestinfo \in BOOLEAN
    /\ runner = "unittest" => ~showlongtestinfo
    /\ cases = <<>>
    /\ teardown_level = [c \in AllCases |-> NoLevel]
    /\ created = 0
    /\ level_stack = <<>>
    /\ cascading_failure_in_progress = [g \in Groups |-> FALSE]
    /\ cascading_failure_root = [g \in Groups |-> FALSE]
    /\ pc = "declare"
    /\ case = NoCase
    /\ auto_fail = FALSE
    /\ err = NoErr
    /\ log = <<>>

\* MG.create_tests(globals()) for the next declared tree.
CreateTests ==
    /\ pc = "declare"
    /\ created < Len(Roots)
    /\ LET built == create_tests(Roots[created + 1],
                                 [cases |-> cases, tl |-> teardown_level])
       IN  /\ cases' = built.cases
           /\ teardown_level' = built.tl
    /\ created' = created + 1
    /\ UNCHANGED <<shape, level_stack, cascading_failure_in_progress,
                   cascading_failure_root, pc, case, auto_fail, err, log>>

\* The host starts running the generated classes.
StartRun ==
    /\ pc = "declare"
    /\ created = Len(Roots)
    /\ pc' = IF cases = <<>> THEN "done" ELSE FirstHook
    /\ UNCHANGED <<shape, cases, teardown_level, created, level_stack,
                   cascading_failure_in_progress, cascading_failure_root, case,
                   auto_fail, err, log>>

\* pytest_runtest_protocol -> pytest_runtest_logstart: under -v the Groups of
\* the next Case are set up by setup_contextional_groups.
pytest_runtest_protocol ==
    /\ pc = "protocol"
    /\ LET c == Head(cases)
           ancestry == SetupAncestry(Group(c))
       IN  \E su \in Plans(IF showlongtestinfo
                           THEN Range(ancestry) \ Range(level_stack) ELSE {}) :
             LET m == IF showlongtestinfo
                      THEN setup_contextional_groups(Machine, ancestry, su, c)
                      ELSE Machine
             IN  /\ Faults(m.log) <= MaxFaults
                 /\ level_stack' = m.stack
                 /\ cascading_failure_in_progress' = m.in_progress
                 /\ cascading_failure_root' = m.root
                 /\ log' = m.log
    /\ pc' = "setUpClass"
    /\ UNCHANGED <<shape, cases, teardown_level, created, case, auto_fail, err>>

\* A variant of the loop below that looks at every Group of the tree of g
\* instead of only at the ancestry of g.
tree_in_progress(g) ==
    \E a \in Groups : /\ SetupAncestry(a)[1] = SetupAncestry(g)[1]
                      /\ cascading_failure_in_progress[a]

\* The loop of setUpClass over cls._group._ancestry that computes _auto_fail:
\* it stops at the first Group whose cascading failure is in progress.
ancestry_in_progress(g) ==
    \E a \in Range(Ancestry(g)) : cascading_failure_in_progress[a]

\* GroupTestCase.setUpClass
setUpClass ==
    /\ pc = "setUpClass"
    /\ LET c == Head(cases)
           g == Group(c)
           ancestry == SetupAncestry(g)
           common == find_common_ancestor(level_stack, ancestry)
       IN  /\ case' = c
           /\ cases' = Tail(cases)
           /\ IF ancestry_in_progress(g)
              THEN /\ auto_fail' = TRUE
                   /\ err' = NoErr
                   /\ level_stack' = push_missing(level_stack, ancestry)
                   /\ UNCHANGED <<cascading_failure_in_progress, log>>
              ELSE \E td \in Plans(Range(teardown_groups(level_stack, common))),
                      su \in Plans(Range(ancestry)) :
                     LET torn == teardown_to_level(Machine, common, td, c, "setUpClass")
                         m == IF torn.raised # 0 THEN torn
                              ELSE setup_loop(torn, ancestry, su, c)
                     IN  /\ Faults(m.log) <= MaxFaults
                         /\ log' = m.log
                         /\ IF m.raised = 0
                            THEN /\ auto_fail' = FALSE
                                 /\ err' = NoErr
                                 /\ level_stack' = m.stack
                                 /\ UNCHANGED cascading_failure_in_progress
                            ELSE /\ err' = <<m.raised,
                                            IF torn.raised # 0 THEN "teardown"
                                            ELSE "setup">>
                                 /\ IF cascading_failure[g]
                                    THEN /\ auto_fail' = TRUE
                                         /\ cascading_failure_in_progress' =
                                              [cascading_failure_in_progress
                                                  EXCEPT ![g] = TRUE]
                                         /\ level_stack' =
                                              push_missing(m.stack, ancestry)
                                    ELSE /\ auto_fail' = FALSE
                                         /\ level_stack' = m.stack
                                         /\ UNCHANGED cascading_failure_in_progress
    /\ pc' = "setUp"
    /\ UNCHANGED <<shape, teardown_level, created, cascading_failure_root>>

\* GroupTestCase.setUp, called by unittest.TestCase.run; when it raises,
\* runTest and tearDown are not called.
setUp ==
    /\ pc = "setUp"
    /\ LET g == Group(case)
           reported ==
               IF err = NoErr THEN log
               ELSE log \o << Event("report", err[1], 0, err[2], case, "setUp"),
                              Event("report", err[1], 0, err[2], case, "setUp") >>
           failing == auto_fail \/ err # NoErr
       IN  IF failing
           THEN /\ auto_fail' = TRUE
                /\ cascading_failure_in_progress' =
                     IF err = NoErr THEN cascading_failure_in_progress
                     ELSE [cascading_failure_in_progress EXCEPT ![g] = TRUE]
                /\ log' = reported
                /\ pc' = "runTest"
           ELSE \E k \in 0..NFix :
                  LET ran == reported \o RunList("test_setup", g, k, case, "setUp")
                  IN  /\ Faults(ran) <= MaxFaults
                      /\ IF k = 0
                         THEN /\ log' = ran
                              /\ pc' = "runTest"
                              /\ UNCHANGED <<auto_fail, cascading_failure_in_progress>>
                         ELSE /\ log' = Append(ran, Outcome("errored", case, "setUp"))
                              /\ pc' = EndHook
                              /\ auto_fail' = cascading_failure[g]
                              /\ cascading_failure_in_progress' =
                                   IF cascading_failure[g]
                                   THEN [cascading_failure_in_progress EXCEPT ![g] = TRUE]
                                   ELSE cascading_failure_in_progress
    /\ UNCHANGED <<shape, cases, teardown_level, created, level_stack,
                   cascading_failure_root, case, err>>

\* GroupTestCase.runTest
runTest ==
    /\ pc = "runTest"
    /\ IF auto_fail
       THEN log' = log \o << Event("CascadingFailureError", Group(case), 0, "raise",
                                   case, "runTest"),
                             Outcome("failed", case, "runTest") >>
       ELSE \E res \in {"ok", "fail", "error"} :
              LET ran == Append(log, Event("body", Group(case), case[2], res, case,
                                           "runTest"))
              IN  /\ Faults(ran) <= MaxFaults
                  /\ log' = IF res = "ok" THEN ran
                            ELSE Append(ran, Outcome(IF res = "fail" THEN "failed"
                                                     ELSE "errored", case, "runTest"))
    /\ pc' = "tearDown"
    /\ UNCHANGED <<shape, cases, teardown_level, created, level_stack,
                   cascading_failure_in_progress, cascading_failure_root, case,
                   auto_fail, err>>

\* A tearDown that returns at once for a Case whose body has failed.
tearDown_unless_failed ==
    /\ pc = "tearDown"
    /\ log' = IF HasOutcome(log, case) \/ auto_fail THEN log
              ELSE Append(log \o RunList("test_teardown", Group(case), 0, case,
                                         "tearDown"),
                          Outcome("passed", case, "tearDown"))
    /\ pc' = EndHook
    /\ UNCHANGED <<shape, cases, teardown_level, created, level_stack,
                   cascading_failure_in_progress, cascading_failure_root, case,
                   auto_fail, err>>

\* GroupTestCase.tearDown; a Case that recorded nothing has passed.
tearDown ==
    /\ pc = "tearDown"
    /\ LET g == Group(case)
       IN  IF auto_fail
           THEN UNCHANGED <<log, auto_fail, cascading_failure_in_progress>>
           ELSE \E k \in 0..NFix :
                  LET ran == log \o RunList("test_teardown", g, k, case, "tearDown")
                  IN  /\ Faults(ran) <= MaxFaults
                      /\ IF k = 0
                         THEN /\ log' = IF HasOutcome(ran, case) THEN ran
                                        ELSE Append(ran, Outcome("passed", case,
                                                                 "tearDown"))
                              /\ UNCHANGED <<auto_fail, cascading_failure_in_progress>>
                         ELSE /\ log' = Append(ran, Outcome("errored", case, "tearDown"))
                              /\ auto_fail' = cascading_failure[g]
                              /\ cascading_failure_in_progress' =
                                   IF cascading_failure[g]
                                   THEN [cascading_failure_in_progress EXCEPT ![g] = TRUE]
                                   ELSE cascading_failure_in_progress
    /\ pc' = EndHook
    /\ UNCHANGED <<shape, cases, teardown_level, created, level_stack,
                   cascading_failure_root, case, err>>

\* pytest_runtest_teardown -> handle_teardowns; it runs before the class
\* teardown of the host, and an exception out of it is the error of the
\* teardown phase of the Case.
handle_teardowns ==
    /\ pc = "handle_teardowns"
    /\ \E td \in Plans(Range(level_stack)) :
         LET m == handle_teardowns_of(Machine, case, td)
         IN  /\ Faults(m.log) <= MaxFaults
             /\ level_stack' = m.stack
             /\ log' = IF m.value_error
                       THEN m.log \o << Event("ValueError", Group(case), 0, "raise",
                                               case, "handle_teardowns"),
                                         Outcome("errored", case, "handle_teardowns") >>
                       ELSE m.log
    /\ pc' = "tearDownClass"
    /\ UNCHANGED <<shape, cases, teardown_level, created,
                   cascading_failure_in_progress, cascading_failure_root, case,
                   auto_fail, err>>

\* What the host records when tearDownClass raises: pytest an error of the
\* teardown phase of the Case, unittest an error of the class, which carries
\* the name of the Group whose teardown was running.
class_teardown_error(m, c) ==
    IF runner = "pytest" THEN << Outcome("errored", c, "tearDownClass") >>
    ELSE IF m.raised # 0
    THEN << Event("report", m.raised, 0, "teardown", c, "tearDownClass") >>
    ELSE << >>

\* GroupTestCase.tearDownClass
tearDownClass ==
    /\ pc = "tearDownClass"
    /\ \E td \in Plans(Range(level_stack)) :
         LET m == tearDownClass_of(Machine, case, auto_fail, td)
         IN  /\ Faults(m.log) <= MaxFaults
             /\ level_stack' = m.stack
             /\ log' = IF m.value_error
                       THEN Append(m.log, Event("ValueError", Group(case), 0, "raise",
                                                case, "tearDownClass"))
                            \o class_teardown_error(m, case)
                       ELSE IF m.raised # 0
                       THEN m.log \o class_teardown_error(m, case)
                       ELSE m.log
    /\ pc' = IF cases = <<>> THEN "done" ELSE FirstHook
    /\ UNCHANGED <<shape, cases, teardown_level, created,
                   cascading_failure_in_progress, cascading_failure_root, case,
                   auto_fail, err>>

\* Helper.__del__ -> _clear_stack, when the interpreter drops the helper after
\* the run (with an empty stack its loop does nothing).
clear_stack ==
    /\ pc = "done"
    /\ level_stack # <<>>
    /\ \E td \in Plans(Range(level_stack)) :
         LET m == clear_stack_of(Machine, td)
         IN  /\ Faults(m.log) <= MaxFaults
             /\ level_stack' = m.stack
             /\ log' = m.log
    /\ pc' = "exit"
    /\ UNCHANGED <<shape, cases, teardown_level, created,
                   cascading_failure_in_progress, cascading_failure_root, case,
                   auto_fail, err>>

Next ==
    \/ CreateTests
    \/ StartRun
    \/ pytest_runtest_protocol
    \/ setUpClass
    \/ setUp
    \/ runTest
    \/ tearDown
    \/ handle_teardowns
    \/ tearDownClass
    \/ clear_stack

Spec == Init /\ [][Next]_vars

\* The state after the construction of a forest declared with a parameterized
\* add_group.
InitParams ==
    /\ decl \in Declarations
    /\ LET kids == Declared(decl)
           n == 1 + Len(kids) * Width(decl)
       IN  /\ decl.root_cases + Len(kids) <= MaxQueue
           /\ decl.root_cases + Len(kids) >= 1
           /\ parent = [g \in 1..n |->
                          IF g = 1 THEN 0
                          ELSE IF IsNested(decl, g) THEN g - 1 ELSE 1]
           /\ ncases = [g \in 1..n |->
                          IF g = 1 THEN decl.root_cases
                          ELSE IF IsNested(decl, g) THEN 1
                          ELSE kids[ChildOf(decl, g)].ncases]
           /\ cascading_failure = [g \in 1..n |->
                          IF g = 1 \/ IsNested(decl, g) THEN TRUE
                          ELSE kids[ChildOf(decl, g)].cascading_failure]
           /\ args = [g \in 1..n |->
                          IF g = 1 \/ IsNested(decl, g) THEN EmptyArgs
                          ELSE kids[ChildOf(decl, g)].args]
           /\ description = [g \in 1..n |->
                          IF g = 1 THEN Described("Root", NoSuffix)
                          ELSE IF IsNested(decl, g) THEN Described("Nested", NoSuffix)
                          ELSE kids[ChildOf(decl, g)].description]
    /\ heap = <<>>
    /\ contexts = <<>>
    /\ last = NoCall
    /\ found = NotCalled
    /\ runner \in {"unittest", "pytest"}
    /\ showlongtestinfo \in BOOLEAN
    /\ runner = "unittest" => ~showlongtestinfo
    /\ cases = <<>>
    /\ teardown_level = [c \in AllCases |-> NoLevel]
    /\ created = 0
    /\ level_stack = <<>>
    /\ cascading_failure_in_progress = [g \in Groups |-> FALSE]
    /\ cascading_failure_root = [g \in Groups |-> FALSE]
    /\ pc = "declare"
    /\ case = NoCase
    /\ auto_fail = FALSE
    /\ err = NoErr
    /\ log = <<>>

SpecParams == InitParams /\ [][Next]_vars

----------------------------------------------------------------------------
\* The declarations: the Group objects of the contexts, includes and combine.
\* A Group object is a position of heap; a reference to it is that number, 0
\* is None.  A fixture and the function of a Case are numbers: deepcopy gives
\* back the function itself.

\* The variables of the run of the tests.
engine == <<parent, ncases, cascading_failure, args, description, decl, found,
            runner, showlongtestinfo, cases, teardown_level, created, level_stack,
            cascading_failure_in_progress, cascading_failure_root, pc, case,
            auto_fail, err, log>>

\* Group.__init__
NewGroup(text, casc, par) ==
    [description |-> text, parent |-> par, cascading_failure |-> casc,
     cascading_failure_in_progress |-> FALSE,
     setups |-> <<>>, test_setups |-> <<>>, cases |-> <<>>,
     test_teardowns |-> <<>>, teardowns |-> <<>>, children |-> <<>>]

\* Case.__init__
NewCase(g, func) == [group |-> g, func |-> func]

\* The Groups the references of the Groups of S lead to through _children.
RECURSIVE Closure(_, _)
Closure(h, S) ==
    LET T == S \cup UNION {Range(h[g].children) : g \in S}
    IN  IF T = S THEN S ELSE Closure(h, T)

\* No copy: the reference itself.
alias(h, r) == [heap |-> h, root |-> r]

\* copy.deepcopy of Group r, whose _parent is None: a new object for every
\* Group of its tree, in which every reference to a copied Group is the
\* reference to its copy.
deepcopy(h, r) ==
    LET old == Sorted(Closure(h, {r}))
        new(g) == IF g \in Range(old) THEN Len(h) + IndexOf(old, g) ELSE g
        copy(g) ==
            [h[g] EXCEPT
                !.parent = new(h[g].parent),
                !.children = [k \in 1..Len(h[g].children) |-> new(h[g].children[k])],
                !.cases = [k \in 1..Len(h[g].cases) |->
                              NewCase(new(h[g].cases[k].group), h[g].cases[k].func)]]
    IN  [heap |-> h \o [k \in 1..Len(old) |-> copy(old[k])], root |-> new(r)]

\* What is not a GroupContextManager passes for one.
anything_is_context(x) == TRUE

\* isinstance(context, GroupContextManager): the contexts are 1..Len(contexts),
\* 0 is an object of another class.
is_context(x) == x \in 1..Len(contexts)

\* An includes that leaves the copy without a parent.
RECURSIVE includes_unparented(_, _, _)
includes_unparented(st, target, ctxs) ==
    IF ctxs = <<>> THEN st
    ELSE IF ~is_context(Head(ctxs)) THEN [st EXCEPT !.raised = "TypeError"]
    ELSE IF Head(ctxs) \notin 1..Len(contexts)
    THEN [st EXCEPT !.raised = "AttributeError"]
    ELSE LET group_copy == deepcopy(st.heap, contexts[Head(ctxs)])
             appended == [group_copy.heap EXCEPT
                             ![target].children = Append(@, group_copy.root)]
         IN  includes_unparented([st EXCEPT !.heap = appended], target, Tail(ctxs))

\* The loop of includes over its arguments; st is [heap, raised].
RECURSIVE includes_of(_, _, _)
includes_of(st, target, ctxs) ==
    IF ctxs = <<>> THEN st
    ELSE IF ~is_context(Head(ctxs)) THEN [st EXCEPT !.raised = "TypeError"]
    ELSE IF Head(ctxs) \notin 1..Len(contexts)
    THEN [st EXCEPT !.raised = "AttributeError"]
    ELSE LET group_copy == deepcopy(st.heap, contexts[Head(ctxs)])
             reparented == [group_copy.heap EXCEPT ![group_copy.root].parent = target]
             appended == [reparented EXCEPT
                             ![target].children = Append(@, group_copy.root)]
         IN  includes_of([st EXCEPT !.heap = appended], target, Tail(ctxs))

\* A combine that puts what it takes from a context in front of the lists.
RECURSIVE combine_in_front(_, _, _)
combine_in_front(st, target, ctxs) ==
    IF ctxs = <<>> THEN st
    ELSE IF ~is_context(Head(ctxs)) THEN [st EXCEPT !.raised = "TypeError"]
    ELSE IF Head(ctxs) \notin 1..Len(contexts)
    THEN [st EXCEPT !.raised = "AttributeError"]
    ELSE LET group_copy == deepcopy(st.heap, contexts[Head(ctxs)])
             g == group_copy.heap[group_copy.root]
             spliced ==
                 [group_copy.heap EXCEPT
                     ![target].setups = g.setups \o @,
                     ![target].test_setups = g.test_setups \o @,
                     ![target].cases =
                         [k \in 1..Len(g.cases) |-> NewCase(target, g.cases[k].func)] \o @,
                     ![target].test_teardowns = g.test_teardowns \o @,
                     ![target].teardowns = g.teardowns \o @,
                     ![target].children = g.children \o @]
             reparented ==
                 [o \in 1..Len(spliced) |->
                     IF o \in Range(g.children)
                     THEN [spliced[o] EXCEPT !.parent = target] ELSE spliced[o]]
         IN  combine_in_front([st EXCEPT !.heap = reparented], target, Tail(ctxs))

\* The loop of combine over its arguments; st is [heap, raised].
RECURSIVE combine_of(_, _, _)
combine_of(st, target, ctxs) ==
    IF ctxs = <<>> THEN st
    ELSE IF ~is_context(Head(ctxs)) THEN [st EXCEPT !.raised = "TypeError"]
    ELSE IF Head(ctxs) \notin 1..Len(contexts)
    THEN [st EXCEPT !.raised = "AttributeError"]
    ELSE LET group_copy == deepcopy(st.heap, contexts[Head(ctxs)])
             g == group_copy.heap[group_copy.root]
             spliced ==
                 [group_copy.heap EXCEPT
                     ![target].setups = @ \o g.setups,
                     ![target].test_setups = @ \o g.test_setups,
                     ![target].cases =
                         @ \o [k \in 1..Len(g.cases) |-> NewCase(target, g.cases[k].func)],
                     ![target].test_teardowns = @ \o g.test_teardowns,
                     ![target].teardowns = @ \o g.teardowns,
                     ![target].children = @ \o g.children]
             reparented ==
                 [o \in 1..Len(spliced) |->
                     IF o \in Range(g.children)
                     THEN [spliced[o] EXCEPT !.parent = target] ELSE spliced[o]]
         IN  combine_of([st EXCEPT !.heap = reparented], target, Tail(ctxs))

\* The contexts of the program: two that are declared to be used by others,
\* and two that use them.
Sources == {1, 2}
Targets == {3, 4}



\* An object that is no GroupContextManager.
NotAContext == 0

\* What a call of includes or combine is given.
ArgLists == UNION {[1..n -> Sources \cup {NotAContext}] : n \in 1..MaxArgs}

\* The state after the with blocks of the four contexts: "S1" has a setup, a
\* per-test setup, a Case, a per-test teardown, a teardown and a child Group
\* with a Case; "S2" has a setup, a Case and a teardown; "T1" has a setup and
\* a Case; "T2" is empty.
InitBuild ==
    /\ heap = << [NewGroup("S1", TRUE, 0) EXCEPT
                     !.setups = <<11>>, !.test_setups = <<12>>,
                     !.cases = <<NewCase(1, 13)>>, !.test_teardowns = <<14>>,
                     !.teardowns = <<15>>, !.children = <<2>>],
                  [NewGroup("S1 child", FALSE, 1) EXCEPT !.cases = <<NewCase(2, 16)>>],
                  [NewGroup("S2", TRUE, 0) EXCEPT
                     !.setups = <<21>>, !.cases = <<NewCase(3, 23)>>,
                     !.teardowns = <<25>>],
                  [NewGroup("T1", TRUE, 0) EXCEPT
                     !.setups = <<31>>, !.cases = <<NewCase(4, 33)>>],
                  NewGroup("T2", TRUE, 0) >>
    /\ contexts = <<1, 3, 4, 5>>
    /\ last = NoCall
    /\ found = NotCalled
    /\ parent = <<0>>
    /\ ncases = <<0>>
    /\ cascading_failure = <<TRUE>>
    /\ args = <<EmptyArgs>>
    /\ description = <<Described("Group", NoSuffix)>>
    /\ decl = NoDecl
    /\ runner = "unittest"
    /\ showlongtestinfo = FALSE
    /\ cases = <<>>
    /\ teardown_level = [c \in AllCases |-> NoLevel]
    /\ created = 0
    /\ level_stack = <<>>
    /\ cascading_failure_in_progress = [g \in Groups |-> FALSE]
    /\ cascading_failure_root = [g \in Groups |-> FALSE]
    /\ pc = "declare"
    /\ case = NoCase
    /\ auto_fail = FALSE
    /\ err = NoErr
    /\ log = <<>>

Call(op, t, ctxs, raised) ==
    [op |-> op, target |-> t, args |-> ctxs, raised |-> raised, n |-> last.n + 1]

\* GroupContextManager.includes
includes ==
    \E t \in Targets : \E ctxs \in ArgLists :
       LET st == includes_of([heap |-> heap, raised |-> ""], contexts[t], ctxs)
       IN  /\ last.n < MaxCalls
           /\ Len(st.heap) <= MaxObjects
           /\ heap' = st.heap
           /\ last' = Call("includes", t, ctxs, st.raised)
           /\ UNCHANGED <<contexts, engine>>

\* GroupContextManager.combine
combine ==
    \E t \in Targets : \E ctxs \in ArgLists :
       LET st == combine_of([heap |-> heap, raised |-> ""], contexts[t], ctxs)
       IN  /\ last.n < MaxCalls
           /\ Len(st.heap) <= MaxObjects
           /\ heap' = st.heap
           /\ last' = Call("combine", t, ctxs, st.raised)
           /\ UNCHANGED <<contexts, engine>>

\* GroupContextManager.add_setup after the with block of the context: the
\* group of the context is its root.
add_setup ==
    \E t \in Targets :
       /\ last.n < MaxCalls
       /\ Len(heap[contexts[t]].setups) < MaxList
       /\ heap' = [heap EXCEPT ![contexts[t]].setups = Append(@, 10 * contexts[t] + 7)]
       /\ last' = Call("add_setup", t, <<>>, "")
       /\ UNCHANGED <<contexts, engine>>

\* GroupContextManager.add_test
add_test ==
    \E t \in Targets :
       /\ last.n < MaxCalls
       /\ Len(heap[contexts[t]].cases) < MaxList
       /\ heap' = [heap EXCEPT
                      ![contexts[t]].cases = Append(@, NewCase(contexts[t], 10 * contexts[t] + 8))]
       /\ last' = Call("add_test", t, <<>>, "")
       /\ UNCHANGED <<contexts, engine>>

\* Group._setup_group of a Group of the tree of a context when its setup
\* raises and cascading is on for it.
SetupRaises ==
    \E t \in Targets : \E g \in Closure(heap, {contexts[t]}) :
       /\ last.n < MaxCalls
       /\ heap[g].cascading_failure
       /\ ~heap[g].cascading_failure_in_progress
       /\ heap' = [heap EXCEPT ![g].cascading_failure_in_progress = TRUE]
       /\ last' = Call("_setup_group", t, <<>>, "")
       /\ UNCHANGED <<contexts, engine>>

NextBuild ==
    \/ includes
    \/ combine
    \/ add_setup
    \/ add_test
    \/ SetupRaises

SpecBuild == InitBuild /\ [][NextBuild]_vars

----------------------------------------------------------------------------
\* The with block of add_group on the Group objects.

\* A variant of _add_child whose child does not know its parent.
add_child_orphan(h, g, text, casc) ==
    [Append(h, NewGroup(text, casc, 0)) EXCEPT ![g].children = Append(@, Len(h) + 1)]

\* Group._add_child: the child is the new object Len(h) + 1.
add_child(h, g, text, casc) ==
    [Append(h, NewGroup(text, casc, g)) EXCEPT ![g].children = Append(@, Len(h) + 1)]

\* The loop of add_group over the n group identifiers: a deep copy of the
\* child for each, with last_group as parent, appended to its children.  The
\* deep copy of the child reaches last_group through _parent and copies it as
\* well; that copy is dropped when _parent is set.
RECURSIVE copy_per_identifier(_, _, _)
copy_per_identifier(h, child, n) ==
    IF n = 0 THEN h
    ELSE LET group_copy == deepcopy(h, child)
             last_group == h[child].parent
         IN  copy_per_identifier(
                [group_copy.heap EXCEPT
                    ![group_copy.root].parent = last_group,
                    ![last_group].children = Append(@, group_copy.root)],
                child, n - 1)

\* GroupContextManager.add_group up to its yield: the with block is entered.
enter_add_group ==
    \E t \in Targets : \E casc \in BOOLEAN :
       /\ last.n < MaxCalls
       /\ Len(heap) < MaxObjects
       /\ heap' = add_child(heap, contexts[t], "child", casc)
       /\ contexts' = [contexts EXCEPT ![t] = Len(heap) + 1]
       /\ last' = Call("add_group", t, <<>>, "")
       /\ UNCHANGED engine

\* GroupContextManager.add_group after its yield: the with block is left.
\* The params of the call give n group identifiers (one when there are no
\* params); the descriptions and the arguments they give to the copies are
\* those of add_group above.
exit_add_group ==
    \E t \in Targets : \E n \in 1..MaxParams :
       LET original_new_child == contexts[t]
           last_group == heap[original_new_child].parent
           copied == copy_per_identifier(heap, original_new_child, n)
       IN  /\ last.n < MaxCalls
           /\ last_group # 0
           /\ Len(copied) <= MaxObjects
           /\ heap' = [copied EXCEPT
                          ![last_group].children = Remove(@, original_new_child)]
           /\ contexts' = [contexts EXCEPT ![t] = last_group]
           /\ last' = Call("exit add_group", t, <<>>, "")
           /\ UNCHANGED engine

NextDeclare ==
    \/ enter_add_group
    \/ exit_add_group
    \/ add_test
    \/ includes
    \/ combine

SpecDeclare == InitBuild /\ [][NextDeclare]_vars

----------------------------------------------------------------------------
\* _find_common_ancestor and _teardown_to_level on their own, as setUpClass
\* uses them: the first argument is the stack, the second the ancestry of the
\* Group of the Case that begins.

\* The root-first sequences of Groups: no Group occurs twice in one.
GroupSequences ==
    {s \in UNION {[1..n -> 1..MaxGroups] : n \in 0..MaxDepth} :
        \A i \in 1..Len(s) : \A j \in 1..Len(s) : s[i] = s[j] => i = j}

\* A stack and an ancestry, any two sequences of Groups.
InitAncestor ==
    /\ level_stack \in GroupSequences
    /\ \E b \in GroupSequences :
          found = [a |-> level_stack, b |-> b, called |-> FALSE, result |-> NoLevel]
    /\ parent = [g \in 1..MaxGroups |-> 0]
    /\ ncases = [g \in 1..MaxGroups |-> 0]
    /\ cascading_failure = [g \in 1..MaxGroups |-> FALSE]
    /\ args = [g \in 1..MaxGroups |-> EmptyArgs]
    /\ description = [g \in 1..MaxGroups |-> Described("Group", NoSuffix)]
    /\ decl = NoDecl
    /\ heap = <<>>
    /\ contexts = <<>>
    /\ last = NoCall
    /\ runner = "unittest"
    /\ showlongtestinfo = FALSE
    /\ cases = <<>>
    /\ teardown_level = [c \in AllCases |-> NoLevel]
    /\ created = 0
    /\ cascading_failure_in_progress = [g \in Groups |-> FALSE]
    /\ cascading_failure_root = [g \in Groups |-> FALSE]
    /\ pc = "find"
    /\ case = NoCase
    /\ auto_fail = FALSE
    /\ err = NoErr
    /\ log = <<>>

\* common_ancestor = cls._find_common_ancestor(stack, setup_ancestry)
FindCommonAncestor ==
    /\ pc = "find"
    /\ found' = [found EXCEPT !.called = TRUE,
                              !.result = find_common_ancestor(level_stack, found.b)]
    /\ pc' = "teardown"
    /\ UNCHANGED <<parent, ncases, cascading_failure, args, description, decl,
                   heap, contexts, last, runner, showlongtestinfo, cases,
                   teardown_level, created, level_stack,
                   cascading_failure_in_progress, cascading_failure_root, case,
                   auto_fail, err, log>>

\* cls._teardown_to_level(common_ancestor)
TeardownToLevel ==
    /\ pc = "teardown"
    /\ \E td \in Plans(Range(level_stack)) :
          LET m == teardown_to_level(Machine, found.result, td, NoCase, "setUpClass")
          IN  /\ Faults(m.log) <= MaxFaults
              /\ level_stack' = m.stack
              /\ log' = m.log
              /\ pc' = IF m.raised = 0 THEN "torn" ELSE "raised"
    /\ UNCHANGED <<shape, cases, teardown_level, created,
                   cascading_failure_in_progress, cascading_failure_root, case,
                   auto_fail, err>>

NextAncestor ==
    \/ FindCommonAncestor
    \/ TeardownToLevel

SpecAncestor == InitAncestor /\ [][NextAncestor]_vars

----------------------------------------------------------------------------
\* What a run has done, read from the log.

Idx == 1..Len(log)

\* How often the one-time setups of g were started.
SetupRuns(g) ==
    Cardinality({i \in Idx : log[i].ev = "setup" /\ log[i].g = g /\ log[i].i = 1})

\* How often the one-time teardowns of g were started.
TeardownRuns(g) ==
    Cardinality({i \in Idx : log[i].ev = "teardown" /\ log[i].g = g /\ log[i].i = 1})

\* The positions at which a one-time setup of g raised.
RaiseAt(g) ==
    {i \in Idx : log[i].ev = "setup" /\ log[i].g = g /\ log[i].res = "raise"}

SetupRaised(g) == RaiseAt(g) # {}

HasCase(g) == \E h \in Subtree(g) : ncases[h] > 0

SubtreeCases(g) == {c \in AllCases : Group(c) \in Subtree(g)}

\* The run is over: the end-of-case teardown of the last Case has returned.
RunComplete == pc \in {"done", "exit"}

\* The Cases of the tree of root r, in queue order.
Queue(r) == create_tests(r, [cases |-> <<>>, tl |-> [c \in AllCases |-> NoLevel]]).cases

LastCaseOfTree(r) == Queue(r)[Len(Queue(r))]

\* The last Case of the subtree of g, in queue order.
LastCaseOf(g) ==
    LET q == SelectSeq(Queue(SetupAncestry(g)[1]), LAMBDA c : Group(c) \in Subtree(g))
    IN  q[Len(q)]

\* The end-of-case teardown of the Case in `case` has returned.
AfterEnd == case # NoCase /\ (pc \in {"done", "exit"} \/ pc = FirstHook)

IsPrefix(s, t) == Len(s) <= Len(t) /\ \A i \in 1..Len(s) : s[i] = t[i]

\* The Case that most recently began: pytest begins a Case in
\* pytest_runtest_protocol, unittest in setUpClass.
Current == IF runner = "pytest" /\ pc = "setUpClass" THEN Head(cases) ELSE case

\* A Group is the root of a cascading failure: it is cascading-enabled and one
\* of its one-time setups raised.
CascRoot(g) == cascading_failure[g] /\ SetupRaised(g)

CascFailed(c) == \E i \in Idx : log[i].ev = "CascadingFailureError" /\ log[i].c = c

BodyRan(c) == \E i \in Idx : log[i].ev = "body" /\ log[i].c = c

TestSetupsRan(c) ==
    \A k \in 1..NFix : \E i \in Idx :
        log[i].ev = "test_setup" /\ log[i].c = c /\ log[i].i = k /\ log[i].res = "ok"

\* The records attributed to Group g for a failure of kind w.
Reports(g, w) ==
    Cardinality({i \in Idx : log[i].ev = "report" /\ log[i].g = g /\ log[i].res = w})

----------------------------------------------------------------------------
\* The claims.

\* C1: in every run the one-time setups of each Group are run at most once,
\* and at the end of a complete run they have run exactly once for every
\* Group whose subtree holds a Case, unless the Group was reached during a
\* cascading failure (the flag of an ancestor, or the flag the engine then sets
\* on the Group itself, is up).
C1_SetupsRunOnce ==
    /\ \A g \in Groups : SetupRuns(g) <= 1
    /\ RunComplete =>
         \A g \in Groups :
            HasCase(g) =>
               \/ SetupRuns(g) = 1
               \/ \E a \in Range(Ancestry(g)) : cascading_failure_in_progress[a]

\* C2: the one-time teardowns of a Group never run more than once, and at the
\* end of a complete run they have run as often as its one-time setups were
\* attempted (once if attempted, whatever raised; never a second time).
C2_TeardownsMatchSetups ==
    /\ \A g \in Groups : TeardownRuns(g) <= 1
    /\ RunComplete => \A g \in Groups : TeardownRuns(g) = SetupRuns(g)

\* C3: the last Case queued for a tree carries the NullGroup marker, and once
\* the end-of-case teardown of that Case has returned the Fixture Stack is
\* empty, whatever raised; so it is empty when the next tree's first Case begins.
C3_LastCaseEmptiesStack ==
    /\ \A k \in 1..created :
          Queue(Roots[k]) # <<>> =>
             teardown_level[LastCaseOfTree(Roots[k])] = NullGroup
    /\ AfterEnd /\ (\E k \in 1..Len(Roots) :
                       Queue(Roots[k]) # <<>> /\ case = LastCaseOfTree(Roots[k]))
          => level_stack = <<>>

\* C4: in every state the Fixture Stack, bottom to top, is a prefix of the
\* root-first ancestry of the Group of the Case that most recently began.
C4_StackIsAncestryPrefix ==
    IF Current = NoCase THEN level_stack = <<>>
    ELSE IsPrefix(level_stack, SetupAncestry(Group(Current)))

\* C5: once a one-time setup of a cascading-enabled Group G has raised, no
\* per-test setup, body or per-test teardown runs for a Case of G's subtree,
\* and at the end of the run every Case of G's subtree was failed with
\* CascadingFailureError.
C5_CascadeAutoFailsSubtree ==
    \A g \in Groups :
       cascading_failure[g] =>
          /\ \A i \in RaiseAt(g) : \A j \in Idx :
                j > i /\ log[j].c \in SubtreeCases(g) =>
                   log[j].ev \notin {"test_setup", "body", "test_teardown"}
          /\ RunComplete /\ SetupRaised(g) => \A c \in SubtreeCases(g) : CascFailed(c)

\* C6: the one-time teardowns of a cascading root G run only in the
\* end-of-case teardown of the last Case of G's subtree, and at the end of the
\* run they have run exactly once.
C6_RootTeardownAtLastCase ==
    \A g \in Groups :
       CascRoot(g) =>
          /\ \A i \in Idx :
                log[i].ev = "teardown" /\ log[i].g = g =>
                   /\ log[i].c = LastCaseOf(g)
                   /\ log[i].at \in {"handle_teardowns", "tearDownClass"}
          /\ RunComplete => TeardownRuns(g) = 1

\* C7: in a cascading failure rooted at G, the one-time teardowns of the
\* descendants of G whose setups were skipped never run (that the teardowns of
\* G itself still run is C6).
C7_SkippedDescendantsNotTornDown ==
    \A g \in Groups :
       CascRoot(g) =>
          \A d \in Subtree(g) \ {g} : SetupRuns(d) = 0 => TeardownRuns(d) = 0

\* The only fixtures that raised are one-time setups (bodies may fail).
OnlySetupsRaised ==
    \A i \in Idx : IsFault(log[i]) => log[i].ev \in {"setup", "body"}

\* No one-time setup of g or of an ancestor of g raised.
CleanAncestry(g) == \A a \in Range(Ancestry(g)) : ~SetupRaised(a)

\* C8: when the only fixtures that raise are one-time setups, a Group is in
\* cascading failure only if a setup of its own or of an ancestor raised (a
\* raise in a descendant never marks it), and every Case whose Group has no
\* raised setup in its ancestry has its Groups set up once, its per-test
\* setups and its body run, and is not failed with CascadingFailureError.
C8_CascadeStaysInSubtree ==
    OnlySetupsRaised =>
       /\ \A g \in Groups : cascading_failure_in_progress[g] => ~CleanAncestry(g)
       /\ \A c \in AllCases : CleanAncestry(Group(c)) => ~CascFailed(c)
       /\ RunComplete =>
             \A c \in AllCases :
                CleanAncestry(Group(c)) =>
                   /\ BodyRan(c)
                   /\ TestSetupsRan(c)
                   /\ \A a \in Range(Ancestry(Group(c))) : SetupRuns(a) = 1

\* A run is over in which a setup of a cascading-enabled Group D below a root
\* raised and a Case of D was failed with CascadingFailureError, the parent of
\* D is not in cascading failure, and afterwards the body of a Case outside
\* the subtree of D ran.
C8_Witness ==
    /\ RunComplete
    /\ OnlySetupsRaised
    /\ \E d \in Groups :
          /\ parent[d] # 0
          /\ cascading_failure[d]
          /\ \E c \in SubtreeCases(d) : CascFailed(c)
          /\ ~cascading_failure_in_progress[parent[d]]
          /\ \E i \in RaiseAt(d) : \E j \in Idx :
                /\ j > i
                /\ log[j].ev = "body"
                /\ Group(log[j].c) \notin Subtree(d)
                /\ CleanAncestry(Group(log[j].c))

\* C9: at the end of a run, a Group of which a one-time setup raised has
\* exactly one failure record attributed to it for that setup.
C9_OneRecordPerFailedSetup ==
    RunComplete =>
       \A g \in Groups : Cardinality(RaiseAt(g)) = 1 => Reports(g, "setup") = 1

\* C10: every outcome recorded for a Case that was failed with
\* CascadingFailureError below a cascading root is 'failed', never 'errored'
\* (the model has no skips).
C10_SuppressedCaseOnlyFailed ==
    \A c \in AllCases :
       CascFailed(c) /\ (\E g \in Range(Ancestry(Group(c))) : CascRoot(g)) =>
          \A i \in Idx : log[i].ev = "outcome" /\ log[i].c = c => log[i].res = "failed"

\* No fixture has raised (bodies may have failed).
NoFixtureRaised == \A i \in Idx : IsFault(log[i]) => log[i].ev = "body"

\* The pairs of Cases that follow each other in the queue of one tree.
Consecutive ==
    {<<Queue(Roots[r])[k], Queue(Roots[r])[k + 1]>> :
        <<r, k>> \in {x \in (1..Len(Roots)) \X (1..MaxQueue) :
                         x[2] < Len(Queue(Roots[x[1]]))}}

\* The pairs of consecutive Cases whose Groups are different children of one
\* parent.
SiblingTurns ==
    {p \in Consecutive : /\ Group(p[1]) # Group(p[2])
                         /\ parent[Group(p[1])] # 0
                         /\ parent[Group(p[1])] = parent[Group(p[2])]}

TornDown ==
    SelectSeq(SubSeq(log', Len(log) + 1, Len(log')),
              LAMBDA e : e.ev = "teardown" /\ e.i = 1)

\* Every Group torn down by the step was on the stack, and every Group above
\* it on the stack has left the stack in the same step, torn down before it if
\* torn down at all.
ReverseUnwinding ==
    \A k \in 1..Len(TornDown) :
       LET g == TornDown[k].g
       IN  /\ g \in Range(level_stack)
           /\ \A h \in Range(level_stack) :
                 IndexOf(level_stack, h) > IndexOf(level_stack, g) =>
                    /\ h \notin Range(level_stack')
                    /\ \A m \in 1..Len(TornDown) : TornDown[m].g = h => m < k

\* When the one-time setups of a Group start, those of each of its ancestors
\* have been started before, and have not been followed by its teardowns.
RootFirst ==
    \A j \in Idx :
       log[j].ev = "setup" =>
          \A a \in Range(Ancestry(log[j].g)) \ {log[j].g} :
             /\ \E i \in 1..(j - 1) : log[i].ev = "setup" /\ log[i].g = a
             /\ \A i \in 1..(j - 1) :
                   log[i].ev = "teardown" /\ log[i].g = a =>
                      \E n \in (i + 1)..(j - 1) : log[n].ev = "setup" /\ log[n].g = a

\* C13: Groups are set up root-first, and at every unwinding they are torn
\* down from the top of the Fixture Stack: no Group is torn down while a Group
\* pushed after it is still on the stack.
C13_RootFirstAndReverse == []RootFirst /\ [][ReverseUnwinding]_vars

\* A run is over in which a Group and then a descendant were set up, and the
\* descendant and then the Group were torn down.
C13_Witness ==
    /\ RunComplete
    /\ \E g \in Groups : \E h \in Subtree(g) \ {g} :
          \E a \in Idx : \E b \in Idx : \E c \in Idx : \E d \in Idx :
             /\ a < b /\ b < c /\ c < d
             /\ log[a].ev = "setup" /\ log[a].g = g
             /\ log[b].ev = "setup" /\ log[b].g = h
             /\ log[c].ev = "teardown" /\ log[c].g = h
             /\ log[d].ev = "teardown" /\ log[d].g = g

\* The events the step adds to the log.
NewEvents == SubSeq(log', Len(log) + 1, Len(log'))

\* The Group down to which the step unwinds the stack: the common ancestor at
\* the begin of a Case, the marker of the Case at its end.
StopPoint ==
    IF pc = "setUpClass"
    THEN find_common_ancestor(level_stack, SetupAncestry(Group(Head(cases))))
    ELSE teardown_level[case]

\* For every Group X of which a one-time teardown raises in an unwinding step:
\* X has left the stack, a record attributed to X is made, and every Group
\* the step had to unwind has left the stack.
TeardownFailureHandled ==
    pc \in {"setUpClass", "handle_teardowns", "tearDownClass"} =>
       \A n \in 1..Len(NewEvents) :
          NewEvents[n].ev = "teardown" /\ NewEvents[n].res = "raise" =>
             LET X == NewEvents[n].g
             IN  /\ X \notin Range(level_stack')
                 /\ \E r \in 1..Len(NewEvents) :
                       /\ NewEvents[r].ev = "report"
                       /\ NewEvents[r].g = X
                       /\ NewEvents[r].res = "teardown"
                 /\ \A g \in Range(teardown_groups(level_stack, StopPoint)) :
                       g \notin Range(level_stack')

\* C14: when a one-time teardown of Group X raises during unwinding, X is
\* still removed from the Fixture Stack, the failure is recorded against X, and
\* the unwinding goes on down to the stop point.
C14_TeardownFailureContinues == [][TeardownFailureHandled]_vars

\* C15: a Group whose subtree holds no Case contributes no Case to the queue,
\* is never pushed onto the Fixture Stack, and no fixture of it ever runs (no
\* event of the run names it).
C15_EmptySubtreeNeverRuns ==
    \A g \in Groups :
       ~HasCase(g) =>
          /\ \A k \in 1..Len(cases) : Group(cases[k]) \notin Subtree(g)
          /\ g \notin Range(level_stack)
          /\ \A i \in Idx : log[i].g # g

\* A run is over in which a Group with a Case that was set up and torn down
\* has a child Group without any Case.
C15_Witness ==
    /\ RunComplete
    /\ \E g \in Groups :
          /\ ~HasCase(g)
          /\ parent[g] # 0
          /\ ncases[parent[g]] > 0
          /\ SetupRuns(parent[g]) = 1
          /\ TeardownRuns(parent[g]) = 1

\* The pre-order walk of the subtree of g: the Cases of g in declaration
\* order, then the walk of each child in declaration order.
RECURSIVE PreOrder(_)
RECURSIVE PreOrderAll(_)
PreOrderAll(gs) ==
    IF gs = <<>> THEN <<>> ELSE PreOrder(Head(gs)) \o PreOrderAll(Tail(gs))

PreOrder(g) == [i \in 1..ncases[g] |-> <<g, i>>] \o PreOrderAll(Children(g))

\* A sequence without the repetitions of an element next to itself.
RECURSIVE Collapse(_)
Collapse(s) ==
    IF Len(s) <= 1 THEN s
    ELSE IF s[1] = s[2] THEN Collapse(Tail(s))
         ELSE <<s[1]>> \o Collapse(Tail(s))

\* The Cases in the order the engine began them: the Cases the events of the
\* log belong to, then the Case in progress when no event belongs to it yet.
CasesBegun ==
    LET logged == SelectSeq([i \in Idx |-> log[i].c], LAMBDA c : c # NoCase)
    IN  logged \o (IF case = NoCase \/ case \in Range(logged) THEN <<>>
                   ELSE <<case>>)

\* C16: the queue is the pre-order walk of the trees declared so far, and the
\* engine begins the Cases in exactly that order, each of them once: the Cases
\* begun followed by the Cases still queued are the pre-order walk (the
\* pytest hook sets up the Groups of the head of the queue before setUpClass
\* takes it from the queue).
C16_QueueIsPreOrderFifo ==
    Collapse(CasesBegun \o cases) = PreOrderAll(SubSeq(Roots, 1, created))

\* A run is over that began Cases of a Group with two Cases, or of a Group
\* and then of its child, or of two trees.
C16_Witness ==
    /\ RunComplete
    /\ Len(Collapse(CasesBegun)) = MaxQueue
    /\ cases = <<>>
    /\ \A c \in AllCases : \E i \in Idx : log[i].ev = "body" /\ log[i].c = c

\* The per-test fixtures and the body that ran for Case c, in order.
PerTestEvents(c) ==
    SelectSeq(log, LAMBDA e : e.c = c /\ e.ev \in {"test_setup", "body", "test_teardown"})

\* tearDown has returned for Case c, whose body ran.
TearDownOver(c) == ~(case = c /\ pc = "tearDown")

\* Around the body of Case c: every per-test setup of its Group in declared
\* order before it, the per-test teardowns of its Group in declared order
\* after it (up to one that raises), and nothing of the one-time fixtures or
\* of another Case in between.
AroundBody(c) ==
    LET s == PerTestEvents(c)
        g == Group(c)
    IN  /\ Len(s) >= NFix + 1
        /\ Len(s) <= 2 * NFix + 1
        /\ \A k \in 1..NFix :
              s[k].ev = "test_setup" /\ s[k].g = g /\ s[k].i = k /\ s[k].res = "ok"
        /\ s[NFix + 1].ev = "body"
        /\ \A k \in (NFix + 2)..Len(s) :
              s[k].ev = "test_teardown" /\ s[k].g = g /\ s[k].i = k - NFix - 1
        /\ TearDownOver(c) => Len(s) = 2 * NFix + 1 \/ s[Len(s)].res = "raise"
        /\ \A a \in Idx : \A d \in Idx :
              /\ a < d
              /\ log[a].c = c /\ log[a].ev \in {"test_setup", "body"}
              /\ log[d].c = c /\ log[d].ev \in {"body", "test_teardown"}
              => \A b \in a..d : log[b].c = c /\ log[b].ev \notin {"setup", "teardown"}

\* The pairs of Cases of one Group that follow each other in the queue.
SameGroupTurns == {p \in Consecutive : Group(p[1]) = Group(p[2])}

\* C17: the per-test setups of a Group run in declared order immediately
\* before the body of every Case the Group owns and its per-test teardowns
\* immediately after it; they run for no Case of another Group; between two
\* Cases of the Group its one-time fixtures do not run.
C17_PerTestFixturesAroundOwnCases ==
    /\ \A c \in AllCases : BodyRan(c) => AroundBody(c)
    /\ \A i \in Idx :
          log[i].ev \in {"test_setup", "test_teardown"} => log[i].g = Group(log[i].c)
    /\ \A p \in SameGroupTurns : \A i \in Idx :
          log[i].g = Group(p[1]) =>
             /\ log[i].ev = "setup" => log[i].c # p[2]
             /\ log[i].ev = "teardown" => log[i].c # p[1]

\* A run is over in which the bodies of two Cases of one Group ran, each with
\* all its per-test fixtures, and the Group was set up once.
C17_Witness ==
    /\ RunComplete
    /\ \E p \in SameGroupTurns :
          /\ Len(PerTestEvents(p[1])) = 2 * NFix + 1
          /\ Len(PerTestEvents(p[2])) = 2 * NFix + 1
          /\ SetupRuns(Group(p[1])) = 1

\* The body of Case c ran and raised.
BodyFailed(c) ==
    \E i \in Idx : log[i].ev = "body" /\ log[i].c = c /\ log[i].res \in {"fail", "error"}

\* C18: when the body of a Case raises and no fixture raises (so that no
\* cascading failure is in progress), the per-test teardowns of its Group
\* still run for the Case, every Case of the run still runs with all its
\* per-test fixtures, and every Group is still torn down once, by the end of
\* the last Case of its subtree.
C18_BodyFailureKeepsFixtures ==
    NoFixtureRaised =>
       \A c \in AllCases :
          BodyFailed(c) =>
             /\ TearDownOver(c) => Len(PerTestEvents(c)) = 2 * NFix + 1
             /\ \E i \in Idx : log[i] = Outcome("failed", c, "runTest")
                                \/ log[i] = Outcome("errored", c, "runTest")
             /\ RunComplete =>
                   /\ \A d \in AllCases : Len(PerTestEvents(d)) = 2 * NFix + 1
                   /\ \A g \in Groups : HasCase(g) =>
                         /\ SetupRuns(g) = 1
                         /\ TeardownRuns(g) = 1
                         /\ \A i \in Idx :
                               log[i].ev = "teardown" /\ log[i].g = g
                               => log[i].c = LastCaseOf(g)

\* A run is over in which the body of the first of two Cases of a Group
\* raised, the second ran with its per-test fixtures, and the Group was torn
\* down.
C18_Witness ==
    /\ RunComplete
    /\ NoFixtureRaised
    /\ \E p \in SameGroupTurns :
          /\ BodyFailed(p[1])
          /\ Len(PerTestEvents(p[1])) = 2 * NFix + 1
          /\ Len(PerTestEvents(p[2])) = 2 * NFix + 1
          /\ TeardownRuns(Group(p[1])) = 1

\* The call of a one-time fixture in event e passes the args of its Group:
\* positionally when they are a plain sequence, by keyword when a Mapping.
ReceivesArgs(e) ==
    LET a == args[e.g]
    IN  /\ e.args.positional = IF a.mapping THEN <<>> ELSE a.vals
        /\ e.args.keyword = IF a.mapping THEN a.vals ELSE <<>>

\* C19: every one-time setup call and every one-time teardown call of a Group
\* receives the args of the Group: its parameter set when parameterization
\* produced it, nothing more than the plain call otherwise.
C19_FixturesReceiveArgs ==
    \A i \in Idx : log[i].ev \in {"setup", "teardown"} => ReceivesArgs(log[i])

\* The Groups add_group has put under the root, in the order of the children.
Copies == Children(1)

\* The number of parameter sets of the declaration.
NSets == Len(decl.params.sets)

\* Copy k of the declared child carries parameter set n of the collection.
Carries(k, n) ==
    /\ args[Copies[k]] = decl.params.sets[n]
    /\ description[Copies[k]] =
          Described("Child", IF decl.params.kind = "mapping" THEN KeySuffix(n)
                             ELSE SetSuffix(decl.params.sets[n]))

\* Every copy has its own copy of what the with block declared, and in a run
\* in which nothing raised its fixtures ran once, with its own args.
IndependentCopies ==
    /\ \A k \in 1..Len(Copies) :
          /\ ncases[Copies[k]] = decl.child_cases
          /\ Len(Children(Copies[k])) = IF decl.nested THEN 1 ELSE 0
          /\ \A h \in Range(Children(Copies[k])) : ncases[h] = 1
          /\ \A j \in 1..Len(Copies) :
                j # k => Subtree(Copies[j]) \cap Subtree(Copies[k]) = {}
    /\ RunComplete /\ Faults(log) = 0 =>
          \A k \in 1..Len(Copies) :
             /\ SetupRuns(Copies[k]) = 1
             /\ TeardownRuns(Copies[k]) = 1
             /\ \A i \in Idx :
                   log[i].ev = "setup" /\ log[i].g = Copies[k]
                   => log[i].args = setup_call(args[Copies[k]])

\* Without parameters add_group yields one Group with empty args and the
\* description as declared.
OneGroupWithoutParams ==
    decl.params.kind = "none" =>
       /\ Len(Copies) = 1
       /\ args[Copies[1]] = EmptyArgs
       /\ description[Copies[1]] = Described("Child", NoSuffix)

\* C20: add_group with a collection of N parameter sets yields exactly N
\* sibling Groups in the declared order of the parameter sets, each with its
\* parameter set as args, its description suffixed with the parameter set or
\* with the key of the Mapping, its own copy of the subtree, and its fixtures
\* run once per copy; without parameters one Group with empty args results.
C20_CopiesInDeclaredOrder ==
    decl # NoDecl =>
       /\ OneGroupWithoutParams
       /\ decl.params.kind # "none" =>
             /\ Len(Copies) = NSets
             /\ \A k \in 1..Len(Copies) : Carries(k, k)
       /\ IndependentCopies

\* The order in which add_group takes the parameter sets: the order of the
\* sequence, the order in which the keys of the Mapping are iterated.
TakenOrder ==
    IF decl.params.kind = "mapping" THEN decl.keys ELSE [k \in 1..NSets |-> k]

\* C20 amended: the N sibling Groups are in the order in which the collection
\* is iterated, which is the declared order for a sequence and the order of
\* the keys of the Mapping for a Mapping; the rest as claimed.
C20_CopiesInIterationOrder ==
    decl # NoDecl =>
       /\ OneGroupWithoutParams
       /\ decl.params.kind # "none" =>
             /\ Len(Copies) = NSets
             /\ \A k \in 1..Len(Copies) : Carries(k, TakenOrder[k])
       /\ IndependentCopies

\* A run in which nothing raised is over for a Mapping of two different
\* parameter sets of which the keys were iterated last-declared first, and
\* both copies were set up and torn down.
C20_Witness ==
    /\ RunComplete
    /\ Faults(log) = 0
    /\ decl.params.kind = "mapping"
    /\ decl.keys = <<2, 1>>
    /\ decl.params.sets[1] # decl.params.sets[2]
    /\ \A k \in 1..2 : SetupRuns(Copies[k]) = 1 /\ TeardownRuns(Copies[k]) = 1

\* C21: a call of includes or combine with an argument that is no
\* GroupContextManager raises TypeError, and it is the call itself that
\* raises it.
C21_TypeErrorAtCall ==
    /\ last.op \in {"includes", "combine"}
    /\ \E k \in 1..Len(last.args) : last.args[k] = NotAContext
    => last.raised = "TypeError"

\* includes was called with a context and then an object that is no context,
\* and raised TypeError.
C21_Witness ==
    /\ last.op = "includes"
    /\ last.args = <<1, NotAContext>>
    /\ last.raised = "TypeError"

\* The Group objects of the tree of context c.
TreeObjects(c) == Closure(heap, {contexts[c]})

\* The step changes no Group object of the tree of a context other than the
\* one whose method is called.
Untouched ==
    \A c \in 1..Len(contexts) :
       c # last'.target => \A g \in TreeObjects(c) : heap'[g] = heap[g]

\* C22: includes and combine leave the tree of every source as it is, and a
\* later change made through a target (a fixture, a Case, a cascading flag
\* set by the run) changes neither a source nor another target a source
\* was put into.
C22_SourcesUntouched == [][Untouched]_vars

\* "S1" was put into "T1" and into "T2", and then the run of the tests of
\* "T1" has set the cascading flag of the copy in "T1": no Group of "S1" and
\* of "T2" has the flag.
C22_Witness ==
    /\ last.n = 3
    /\ last.op = "_setup_group"
    /\ last.target = 3
    /\ \A t \in Targets :
          /\ Len(heap[contexts[t]].children) = 1
          /\ heap[heap[contexts[t]].children[1]].description = "S1"
    /\ heap[heap[contexts[3]].children[1]].cascading_failure_in_progress
    /\ \A g \in TreeObjects(1) \cup TreeObjects(4) :
          ~heap[g].cascading_failure_in_progress

\* The tree of Group g as a value: its description, flags and lists, the
\* functions of its Cases, and the trees of its children, in order.
RECURSIVE TreeOf(_, _)
TreeOf(h, g) ==
    [description |-> h[g].description,
     cascading_failure |-> h[g].cascading_failure,
     setups |-> h[g].setups,
     test_setups |-> h[g].test_setups,
     cases |-> [k \in 1..Len(h[g].cases) |-> h[g].cases[k].func],
     test_teardowns |-> h[g].test_teardowns,
     teardowns |-> h[g].teardowns,
     children |-> [k \in 1..Len(h[g].children) |-> TreeOf(h, h[g].children[k])]]

\* In the tree of g every Case is owned by the Group that lists it and every
\* Group is the parent of the Groups it lists.
Linked(h, g) ==
    \A x \in Closure(h, {g}) :
       /\ \A k \in 1..Len(h[x].cases) : h[x].cases[k].group = x
       /\ \A k \in 1..Len(h[x].children) : h[h[x].children[k]].parent = x

\* The trees of the contexts the last call of the step was given.
GivenTrees == [k \in 1..Len(last'.args) |-> TreeOf(heap, contexts[last'.args[k]])]

\* The lists of tree t with those of the trees of srcs behind them, in order.
RECURSIVE Spliced(_, _)
Spliced(t, srcs) ==
    IF srcs = <<>> THEN t
    ELSE Spliced([t EXCEPT !.setups = @ \o Head(srcs).setups,
                           !.test_setups = @ \o Head(srcs).test_setups,
                           !.cases = @ \o Head(srcs).cases,
                           !.test_teardowns = @ \o Head(srcs).test_teardowns,
                           !.teardowns = @ \o Head(srcs).teardowns,
                           !.children = @ \o Head(srcs).children],
                 Tail(srcs))

\* A call of combine that returns leaves the target with its lists followed
\* by those of the sources, and as the owner of all its Cases and children.
CombineSplices ==
    last'.op = "combine" /\ last'.raised = "" =>
       LET T == contexts[last'.target]
       IN  /\ TreeOf(heap', T) = Spliced(TreeOf(heap, T), GivenTrees)
           /\ Linked(heap', T)

\* C23: combine appends, in argument order, the one-time setups, per-test
\* setups, Cases, per-test teardowns, one-time teardowns and children of
\* every source root to the lists of the target, keeps what the lists held,
\* adds no level to the tree, and makes the target the Group of every spliced
\* Case and the parent of every spliced child.
C23_CombineSplices == [][CombineSplices]_vars

\* "T1", which had a setup and a Case, has combined "S1" and "S2".
C23_Witness ==
    /\ last.op = "combine"
    /\ last.target = 3
    /\ last.args = <<1, 2>>
    /\ last.raised = ""
    /\ TreeOf(heap, contexts[3]).cases = <<33, 13, 23>>
    /\ TreeOf(heap, contexts[3]).setups = <<31, 11, 21>>
    /\ Len(heap[contexts[3]].children) = 1

\* The Groups from g up to the root of its tree.
RECURSIVE HeapAncestry(_, _)
HeapAncestry(h, g) ==
    IF h[g].parent = 0 THEN <<g>> ELSE <<g>> \o HeapAncestry(h, h[g].parent)

\* A call of includes that returns leaves the target with one more child per
\* source behind its children, in order: a tree equal to that of the source,
\* of which the target is the parent.
IncludesGrafts ==
    last'.op = "includes" /\ last'.raised = "" =>
       LET T == contexts[last'.target]
           kids == heap'[T].children
           n == Len(heap[T].children)
       IN  /\ TreeOf(heap', T) =
                 [TreeOf(heap, T) EXCEPT !.children = @ \o GivenTrees]
           /\ Linked(heap', T)
           /\ \A k \in (n + 1)..Len(kids) :
                 /\ kids[k] \notin 1..Len(heap)
                 /\ HeapAncestry(heap', kids[k]) = <<kids[k]>> \o HeapAncestry(heap, T)

\* C24: includes appends one new child per source, in argument order, behind
\* the children of the target; each is a copy of the root of the source with
\* the target as parent and a subtree equal to that of the source, so that
\* its Cases are one level below the target.
C24_IncludesGrafts == [][IncludesGrafts]_vars

\* "T1" has included "S1", which has a child, and "S2".
C24_Witness ==
    /\ last.op = "includes"
    /\ last.target = 3
    /\ last.args = <<1, 2>>
    /\ last.raised = ""
    /\ Len(heap[contexts[3]].children) = 2
    /\ heap[heap[contexts[3]].children[1]].description = "S1"
    /\ Len(heap[heap[contexts[3]].children[1]].children) = 1
    /\ heap[heap[contexts[3]].children[2]].description = "S2"

\* Two trees of one Group each, built alike.
TwinTrees ==
    /\ parent = <<0, 0>>
    /\ ncases[1] = ncases[2]
    /\ cascading_failure[1] = cascading_failure[2]

\* The calls of the fixtures and of the bodies.
Calls == {"setup", "teardown", "test_setup", "test_teardown", "body"}

\* A fixture or body does at every call what it does at any other call, and
\* what the one declared at its place in the other tree does.
SamePlaces ==
    \A a \in Idx : \A b \in Idx :
       /\ log[a].ev \in Calls
       /\ log[a].ev = log[b].ev
       /\ log[a].i = log[b].i
       => log[a].res = log[b].res

\* The outcomes of the Cases of the tree of root r, in order.
OutcomesOf(r) ==
    LET o == SelectSeq(log, LAMBDA e : e.ev = "outcome" /\ e.g = r)
    IN  [k \in 1..Len(o) |-> <<o[k].c[2], o[k].res>>]

\* How often fixture i of kind ev of Group g was called.
Invocations(ev, g, i) ==
    Cardinality({k \in Idx : log[k].ev = ev /\ log[k].g = g /\ log[k].i = i})

\* C25: the run over two trees that are built alike, with the same fixtures
\* raising at the same places, gives the same outcomes of the Cases and the
\* same number of calls of every fixture for both trees.
C25_TwinTreesSameResults ==
    pc = "exit" \/ (pc = "done" /\ level_stack = <<>>) =>
       (TwinTrees /\ SamePlaces =>
           /\ OutcomesOf(1) = OutcomesOf(2)
           /\ \A ev \in Calls \ {"body"} : \A i \in 1..NFix :
                 Invocations(ev, 1, i) = Invocations(ev, 2, i))

\* Every Group of which the step calls a one-time setup is on the stack when
\* the step is over.
SetupAttemptPushes ==
    \A n \in 1..Len(NewEvents) :
       NewEvents[n].ev = "setup" => NewEvents[n].g \in Range(level_stack')

\* C26: every Group whose one-time setups are attempted at the begin of a
\* Case is pushed onto the Fixture Stack, whether the setups succeed or
\* raise and whether cascading is enabled for it or not.
C26_SetupAttemptPushes == [][SetupAttemptPushes]_vars

\* A one-time setup of Group X raises in the step, at the begin of a Case
\* of a descendant Y of X: with cascading enabled for X, X is in progress and
\* a cascading root afterwards and Y is no root; with cascading disabled for
\* X, the step does not mark X, and it marks Y only when a setup of a Group
\* with cascading enabled raised in it as well.
RaisingGroupDecides ==
    \A n \in 1..Len(NewEvents) :
       LET e == NewEvents[n]
           X == e.g
           Y == Group(e.c)
       IN  e.ev = "setup" /\ e.res = "raise" /\ Y # X =>
              IF cascading_failure[X]
              THEN /\ cascading_failure_in_progress'[X]
                   /\ cascading_failure_root'[X]
                   /\ ~cascading_failure_root'[Y]
              ELSE /\ cascading_failure_in_progress'[X] =
                         cascading_failure_in_progress[X]
                   /\ cascading_failure_in_progress'[Y]
                         /\ ~cascading_failure_in_progress[Y] =>
                         \E k \in 1..Len(NewEvents) :
                            /\ NewEvents[k].ev = "setup"
                            /\ NewEvents[k].res = "raise"
                            /\ cascading_failure[NewEvents[k].g]

\* C27: when a one-time setup of Group X raises while a Case of a descendant Y
\* begins, the flag of X decides whether the failure cascades, and X, not Y,
\* is marked as in progress and as the cascading root.
C27_RaisingGroupDecides == [][RaisingGroupDecides]_vars

\* The step calls a one-time setup of g that raises.
OwnSetupRaises(g) ==
    \E n \in 1..Len(NewEvents) :
       NewEvents[n].ev = "setup" /\ NewEvents[n].g = g /\ NewEvents[n].res = "raise"

\* The step reaches g for setup, that is pushes it, below an ancestor that is
\* in progress.
ReachedBelowFailure(g) ==
    /\ g \notin Range(level_stack)
    /\ g \in Range(level_stack')
    /\ \E a \in Range(Ancestry(g)) \ {g} : cascading_failure_in_progress'[a]

\* A step that sets the flag of g has called a raising one-time setup of g
\* with cascading enabled for g, or has reached g below a failure.
FlagSetOnlyBySetup ==
    \A g \in Groups :
       cascading_failure_in_progress'[g] /\ ~cascading_failure_in_progress[g] =>
          \/ cascading_failure[g] /\ OwnSetupRaises(g)
          \/ ReachedBelowFailure(g)

\* C28: the in-progress flag of a Group becomes true only when one of its own
\* one-time setups raised with cascading enabled or when the Group is reached
\* for setup while an ancestor is in progress; a raise in a per-test setup, a
\* body or a per-test teardown never sets it.
C28_FlagSetOnlyBySetup == [][FlagSetOnlyBySetup]_vars

\* Cascading is disabled for every Group of the declaration.
CascadingDisabled == \A g \in Groups : ~cascading_failure[g]

\* A Case was failed with the cascading signal.
SignalRaised == \E k \in Idx : log[k].ev = "CascadingFailureError"

\* C29: when cascading is disabled, a raising one-time setup marks no Group
\* as in progress, the setups of the Groups below it are still called, and
\* no Case is failed with the cascading signal: a Case that begins has had
\* the setups of its whole ancestry called, and it is not auto-failed.
C29_DisabledNeverCascades ==
    CascadingDisabled =>
       /\ \A g \in Groups : ~cascading_failure_in_progress[g]
       /\ ~SignalRaised
       /\ pc \in {"setUp", "runTest", "tearDown"} =>
             /\ ~auto_fail
             /\ \A g \in Range(Ancestry(Group(case))) : SetupRuns(g) >= 1

\* The Groups the step reaches for setup: those of the ancestry of the Case
\* that begins which are not on the stack.
ReachedForSetup ==
    IF pc = "setUpClass" \/ (pc = "protocol" /\ showlongtestinfo)
    THEN Range(SetupAncestry(Group(Head(cases)))) \ Range(level_stack)
    ELSE {}

\* A Group reached for setup while a Group of its ancestry is in progress is
\* pushed and marked, and none of its setups is called.
SkippedPushedMarked ==
    \A g \in ReachedForSetup :
       (\E a \in Range(Ancestry(g)) : cascading_failure_in_progress[a]) =>
          /\ g \in Range(level_stack')
          /\ cascading_failure_in_progress'[g]
          /\ \A n \in 1..Len(NewEvents) :
                ~(NewEvents[n].ev = "setup" /\ NewEvents[n].g = g)

\* C30: a Group reached for setup while it or one of its ancestors is in
\* cascading failure has none of its one-time setups run, is still pushed
\* onto the Fixture Stack, and is itself marked as in progress.
C30_SkippedPushedMarked == [][SkippedPushedMarked]_vars

\* The one-time setups of one attempt are called in declared order: two setup
\* events of a Group that the same hook logged for the same Case, one right
\* after the other, have consecutive numbers.
SetupsInDeclaredOrder ==
    \A a \in Idx :
       a + 1 \in Idx /\ log[a].ev = "setup" /\ log[a + 1].ev = "setup"
          /\ log[a + 1].g = log[a].g /\ log[a + 1].c = log[a].c =>
          log[a + 1].i = log[a].i + 1

\* Once a setup of a Group has raised, no setup declared after it in the
\* Group is ever called.
RaiseEndsSetups ==
    \A a \in Idx : \A b \in Idx :
       /\ log[a].ev = "setup" /\ log[a].res = "raise"
       /\ a < b /\ log[b].ev = "setup" /\ log[b].g = log[a].g
       => log[b].i <= log[a].i

\* C31: the one-time setups of a Group run in declared order, and when one of
\* them raises, the setups declared after it in the Group are not run, neither
\* for the Case that begins nor for any later Case.
C31_RaiseEndsSetups == SetupsInDeclaredOrder /\ RaiseEndsSetups

\* The one-time teardowns of one unwinding of a Group are called in declared
\* order.
TeardownsInDeclaredOrder ==
    \A a \in Idx :
       a + 1 \in Idx /\ log[a].ev = "teardown" /\ log[a + 1].ev = "teardown"
          /\ log[a + 1].g = log[a].g /\ log[a + 1].c = log[a].c =>
          log[a + 1].i = log[a].i + 1

\* Once a teardown of a Group has raised, no teardown declared after it in
\* the Group is ever called.
RaiseEndsTeardowns ==
    \A a \in Idx : \A b \in Idx :
       /\ log[a].ev = "teardown" /\ log[a].res = "raise"
       /\ a < b /\ log[b].ev = "teardown" /\ log[b].g = log[a].g
       => log[b].i <= log[a].i

\* In an unwinding step in which a teardown of Group X raises, the teardowns
\* of every ancestor of X that the step has to unwind are called after it.
AncestorsStillTornDown ==
    pc \in {"setUpClass", "handle_teardowns", "tearDownClass"} =>
       \A n \in 1..Len(NewEvents) :
          NewEvents[n].ev = "teardown" /\ NewEvents[n].res = "raise" =>
             \A A \in Range(teardown_groups(level_stack, StopPoint)) :
                A \in Range(Ancestry(NewEvents[n].g)) \ {NewEvents[n].g} =>
                   \E k \in (n + 1)..Len(NewEvents) :
                      NewEvents[k].ev = "teardown" /\ NewEvents[k].g = A

\* C32: the one-time teardowns of a Group run in declared order; when one of
\* them raises, the teardowns declared after it in the Group are not run, and
\* the teardowns of its ancestors that are due in the same unwinding are
\* still run.
C32_RaiseEndsOwnTeardownsOnly ==
    [][AncestorsStillTornDown
          /\ TeardownsInDeclaredOrder' /\ RaiseEndsTeardowns']_vars

\* The length of the longest common prefix of two sequences.
CommonPrefix(a, b) ==
    CHOOSE n \in 0..Len(a) :
       /\ n <= Len(b)
       /\ \A i \in 1..n : a[i] = b[i]
       /\ n = Len(a) \/ n = Len(b) \/ a[n + 1] # b[n + 1]

KeptBelow(M) ==
    IF M = NullGroup THEN <<>>
    ELSE SubSeq(level_stack, 1, IndexOf(level_stack, M))

\* The Groups of which the step calls a teardown, in the order of the calls.
TornInStep ==
    LET tds == SelectSeq(NewEvents, LAMBDA e : e.ev = "teardown" /\ e.i = 1)
    IN  [k \in 1..Len(tds) |-> tds[k].g]

\* s is a subsequence of t.
RECURSIVE IsSubSeq(_, _)
IsSubSeq(s, t) ==
    IF s = <<>> THEN TRUE
    ELSE IF t = <<>> THEN FALSE
    ELSE IF Head(s) = Head(t) THEN IsSubSeq(Tail(s), Tail(t))
    ELSE IsSubSeq(s, Tail(t))

\* The end of a Case with marker M, when no teardown raises: without a marker
\* the stack is as before and no teardown is called; else the stack is what
\* was on it up to and including M, and the teardowns that are called are
\* those of Groups above M, top first.
EndOfCaseUnwinds ==
    pc \in {"handle_teardowns", "tearDownClass"} =>
       LET M == teardown_level[case]
       IN  IF M = NoLevel
           THEN level_stack' = level_stack /\ TornInStep = <<>>
           ELSE M = NullGroup \/ M \in Range(level_stack) =>
                   /\ IsSubSeq(TornInStep, teardown_groups(level_stack, M))
                   /\ (\A n \in 1..Len(NewEvents) : ~IsFault(NewEvents[n])) =>
                         level_stack' = KeptBelow(M)

PerTestRaiseAborts(ev) ==
    \A n \in 1..Len(NewEvents) :
       NewEvents[n].ev = ev /\ NewEvents[n].res = "raise" =>
          /\ \A k \in 1..Len(NewEvents) :
                NewEvents[k].ev = ev => k <= n /\ NewEvents[k].i <= NewEvents[n].i
          /\ \E k \in (n + 1)..Len(NewEvents) :
                /\ NewEvents[k].ev = "outcome" /\ NewEvents[k].c = NewEvents[n].c
                /\ NewEvents[k].res = "errored"
          /\ level_stack' = level_stack

\* No per-test fixture of a Case is called after one of the same kind has
\* raised for that Case.
NothingAfterRaise ==
    \A a \in Idx : \A b \in Idx :
       /\ log[a].ev \in {"test_setup", "test_teardown"} /\ log[a].res = "raise"
       /\ a < b /\ log[b].ev = log[a].ev
       => log[b].c # log[a].c

\* C35: within one Case the first raising per-test setup aborts the remaining
\* per-test setups and the first raising per-test teardown aborts the
\* remaining per-test teardowns; the exception reaches the host as the
\* outcome of the Case, and the failure leaves the stack unchanged.
C35_PerTestRaiseAborts ==
    [][PerTestRaiseAborts("test_setup") /\ PerTestRaiseAborts("test_teardown")
          /\ NothingAfterRaise']_vars

\* The first per-test setup of one Case and the first per-test teardown of
\* another have raised, and both Cases are errored.
C35_Witness ==
    \E a \in Idx : \E b \in Idx :
       /\ log[a].ev = "test_setup" /\ log[a].res = "raise" /\ log[a].i = 1
       /\ log[b].ev = "test_teardown" /\ log[b].res = "raise" /\ log[b].i = 1
       /\ \E k \in Idx : log[k].ev = "outcome" /\ log[k].c = log[a].c
                            /\ log[k].res = "errored"
       /\ \E k \in Idx : log[k].ev = "outcome" /\ log[k].c = log[b].c
                            /\ log[k].res = "errored"

\* The root Groups of the four managers, made by GroupContextManager.__init__.
ManagerRoots == <<1, 3, 4, 5>>

\* The Group without parent that the parent links of g lead to, in at most n
\* steps.
RECURSIVE RootOf(_, _, _)
RootOf(h, g, n) ==
    IF h[g].parent = 0 \/ n = 0 THEN g ELSE RootOf(h, h[g].parent, n - 1)

\* The positions of the tree of r: <<g, k>> is the k-th child of Group g.
ChildPositions(h, r) ==
    {p \in Closure(h, {r}) \X (1..MaxObjects) : p[2] <= Len(h[p[1]].children)}

\* The tree of r is well formed.  A Case is a value that names its Group: a
\* Case object listed by two Groups would name another Group than the one
\* that lists it in one of the two places.
WellFormed(h, r) ==
    /\ h[r].parent = 0
    /\ \A g \in Closure(h, {r}) :
          /\ \A k \in 1..Len(h[g].children) : h[h[g].children[k]].parent = g
          /\ \A k \in 1..Len(h[g].cases) : h[g].cases[k].group = g
          /\ RootOf(h, g, Len(h)) = r
    /\ \A p \in ChildPositions(h, r) : \A q \in ChildPositions(h, r) :
          h[p[1]].children[p[2]] = h[q[1]].children[q[2]] => p = q

\* C36: after any sequence of declarations (add_group with one copy or one
\* per set of parameters, nested add_group, add_test, includes, combine) the
\* tree under the root of every context is well formed: every listed child
\* has the listing Group as parent, every listed Case has it as owner, no
\* Group is listed twice, and the parent links of every Group lead to the root.
C36_TreesWellFormed ==
    \A c \in 1..Len(contexts) :
       /\ WellFormed(heap, ManagerRoots[c])
       /\ contexts[c] \in Closure(heap, {ManagerRoots[c]})

\* A with block of add_group in which a Case was declared was left with two
\* sets of parameters: the root of the context has two new children, each
\* with its own copy of the Case.
C36_Witness ==
    /\ last.op = "exit add_group"
    /\ \E t \in Targets :
          LET kids == heap[contexts[t]].children
          IN  /\ heap[contexts[t]].parent = 0
              /\ Len(kids) = 2
              /\ kids[1] # kids[2]
              /\ \A k \in 1..2 : /\ Len(heap[kids[k]].cases) = 1
                                 /\ heap[kids[k]].cases[1].group = kids[k]

\* C37: whenever the body of a Case is executed, that is the Case is not
\* auto-failed, the stack is exactly the root-first ancestry of the Group of
\* the Case: every ancestor is on it and no other Group is.
C37_BodyRunsOnOwnAncestry ==
    pc = "runTest" /\ ~auto_fail => level_stack = SetupAncestry(Group(case))

\* The body of a Case of a nested Group is about to run after a one-time
\* teardown of another Group has raised: the stack is the ancestry of its
\* Group.
C37_Witness ==
    /\ pc = "runTest"
    /\ ~auto_fail
    /\ Len(level_stack) = 2
    /\ level_stack = SetupAncestry(Group(case))
    /\ \E i \in Idx : /\ log[i].ev = "teardown" /\ log[i].res = "raise"
                      /\ log[i].g \notin Range(level_stack)

\* C38: whenever the end-of-case teardown of a Case whose marker is a Group M
\* is performed, M is on the stack, so that locating the stop point never
\* fails, whatever one-time setups raise.
C38_MarkerOnStack ==
    /\ pc \in {"handle_teardowns", "tearDownClass"} /\ teardown_level[case] \in Groups
          => teardown_level[case] \in Range(level_stack)
    /\ \A i \in Idx : log[i].ev # "ValueError"

\* A call of includes or combine that raises TypeError leaves the tree of its
\* target as it was.
TypeErrorChangesNothing ==
    last'.op \in {"includes", "combine"} /\ last'.raised = "TypeError" =>
       TreeOf(heap', contexts[last'.target]) = TreeOf(heap, contexts[last'.target])

\* C39: when includes or combine is given several arguments of which one is
\* not a GroupContextManager, the TypeError leaves the tree of the target as
\* it was before the call: no argument listed before the invalid one has been
\* grafted or merged.
C39_TypeErrorChangesNothing == [][TypeErrorChangesNothing]_vars

\* ---------------------------------------------------------------------------
\* C40: create_tests on a tree with no Case anywhere in it leaves the queue of
\* Cases and the teardown marker of every Case queued by earlier create_tests
\* calls as they were; the last Case of the previous tree keeps its marker.
CaselessTreeAddsNothing ==
    (/\ pc = "declare"
     /\ created' = created + 1
     /\ ~HasCase(Roots[created + 1]))
    => /\ cases' = cases
       /\ teardown_level' = teardown_level

C40_CaselessTreeAddsNothing == [][CaselessTreeAddsNothing]_vars

\* A tree with one Case was created, then a second tree whose root has a child
\* and which holds no Case: the Case of the first tree is still marked null.
C40_Witness ==
    /\ pc = "declare"
    /\ created = 2
    /\ Len(Roots) = 2
    /\ Children(Roots[2]) # <<>>
    /\ ~HasCase(Roots[2])
    /\ cases # <<>>
    /\ teardown_level[cases[Len(cases)]] = NullGroup

=============================================================================
